---- MODULE Spec2Model ----
(***************************************************************************)
(* A model of the URL shortener's services.                                *)
(*                                                                         *)
(*  - the Go redirect/creation service (go-service/main.go): the urls      *)
(*    table, POST /api/shorten (createShortURL), GET /:code (redirect) and *)
(*    the detached click notification (sendClickEvent);                    *)
(*  - the Analytics Service's POST /api/events, which is not part of the   *)
(*    sources and is modelled from the specification (an append-only click *)
(*    event log);                                                          *)
(*  - the Node.js metadata service: the metadata table, fetchUrlMetadata   *)
(*    and POST /api/metadata.                                              *)
(*                                                                         *)
(* Each service owns a private store, so the Go service (with the          *)
(* analytics event log it notifies) and the metadata service are checked   *)
(* under separate specifications: Spec and MetaSpec (the POST requests of  *)
(* the metadata service; MetaAllSpec adds its GET handler). SeqSpec is the *)
(* Go service with its creation requests handled one at a time; FairSpec   *)
(* is its concurrent creation requests under fair draws. GenSpec is one    *)
(* creation request whose draws range over sampled byte buffers, and       *)
(* FavSpec runs the favicon resolution of fetchUrlMetadata on its own,     *)
(* over sampled pages.                                                     *)
(***************************************************************************)
EXTENDS Naturals, Integers, Sequences, FiniteSets, TLC

(***************************************************************************)
(* Bounds of the model.                                                    *)
(***************************************************************************)
\* The code space: generateShortCode draws one of 64^6 strings; the model
\* lets rand.Read leave one of NumCodes buffers, so that collisions and a
\* full store happen.
NumCodes == 2
\* Number of HTTP requests the Go service receives; each is either a
\* POST /api/shorten or a GET /:code.
NumRequests == 2

(***************************************************************************)
(* generateShortCode: rand.Read fills the 6-byte buffer,                   *)
(* base64.URLEncoding encodes it and the first 6 characters are returned.  *)
(* A code is the sequence of its characters.                               *)
(***************************************************************************)
BufLen == 6
CodeLen == 6

\* base64.StdEncoding's alphabet.
StdEncoding ==
    <<"A", "B", "C", "D", "E", "F", "G", "H", "I", "J", "K", "L", "M", "N", "O", "P",
      "Q", "R", "S", "T", "U", "V", "W", "X", "Y", "Z", "a", "b", "c", "d", "e", "f",
      "g", "h", "i", "j", "k", "l", "m", "n", "o", "p", "q", "r", "s", "t", "u", "v",
      "w", "x", "y", "z", "0", "1", "2", "3", "4", "5", "6", "7", "8", "9", "+", "/">>

\* base64.URLEncoding's alphabet: '-' and '_' stand for 62 and 63.
URLEncoding ==
    <<"A", "B", "C", "D", "E", "F", "G", "H", "I", "J", "K", "L", "M", "N", "O", "P",
      "Q", "R", "S", "T", "U", "V", "W", "X", "Y", "Z", "a", "b", "c", "d", "e", "f",
      "g", "h", "i", "j", "k", "l", "m", "n", "o", "p", "q", "r", "s", "t", "u", "v",
      "w", "x", "y", "z", "0", "1", "2", "3", "4", "5", "6", "7", "8", "9", "-", "_">>

PadChar == "="

\* The character of the 6-bit value v.
B64Char(alphabet, v) == alphabet[v + 1]

\* Encoding.EncodeToString: 3 bytes give 4 characters; a last group of 1 or
\* 2 bytes is padded with '=' to 4 characters.
RECURSIVE EncodeToString(_, _)
EncodeToString(alphabet, src) ==
    IF Len(src) = 0 THEN <<>>
    ELSE IF Len(src) = 1 THEN
        <<B64Char(alphabet, src[1] \div 4),
          B64Char(alphabet, (src[1] % 4) * 16),
          PadChar, PadChar>>
    ELSE IF Len(src) = 2 THEN
        <<B64Char(alphabet, src[1] \div 4),
          B64Char(alphabet, (src[1] % 4) * 16 + src[2] \div 16),
          B64Char(alphabet, (src[2] % 16) * 4),
          PadChar>>
    ELSE
        <<B64Char(alphabet, src[1] \div 4),
          B64Char(alphabet, (src[1] % 4) * 16 + src[2] \div 16),
          B64Char(alphabet, (src[2] % 16) * 4 + src[3] \div 64),
          B64Char(alphabet, src[3] % 64)>>
        \o EncodeToString(alphabet, SubSeq(src, 4, Len(src)))

\* encoded[:6]
GenerateShortCode(buf) ==
    SubSeq(EncodeToString(URLEncoding, buf), 1, CodeLen)

\* What rand.Read leaves in b. Buffer i holds the byte 256 - i six times:
\* the first one gives the code "______".
RandRead(i) == [k \in 1..BufLen |-> 256 - i]
RandReads == {RandRead(i) : i \in 1..NumCodes}

\* The codes the service draws.
Codes == {GenerateShortCode(b) : b \in RandReads}

\* A wider choice of buffers: every buffer over the bytes 0 (also the state
\* of b when rand.Read fails), 77, 251 and 255, whose 6-bit groups include
\* the values 62 and 63.
ByteSamples == {0, 77, 251, 255}
SampleReads == [1..BufLen -> ByteSamples]

Requests == 1..NumRequests
\* The requests that may turn out to be a POST /api/shorten, a GET /:code.
Creators == Requests
Redirects == Requests

\* Long URLs a client may submit. "" stands for a body whose long_url is
\* missing or empty (binding:"required" rejects both).
LongURLs == {"u1", "u2"}
NoURL == ""
NoCode == <<>>

StatusOK == 200
StatusMovedPermanently == 301
StatusBadRequest == 400
StatusNotFound == 404
StatusInternalServerError == 500

(***************************************************************************)
(* Strings of the metadata service. A string is the sequence of its        *)
(* characters; <<>> is the empty string and also stands for undefined and  *)
(* null, which the code tests only for falsiness. A literal of the program *)
(* that is never taken apart is written as one element.                    *)
(***************************************************************************)
Empty == <<>>
Null == <<>>

Min(a, b) == IF a <= b THEN a ELSE b

\* s.substring(0, n)
Substring0(s, n) == SubSeq(s, 1, Min(Len(s), n))

\* s.startsWith(prefix)
StartsWith(s, prefix) ==
    Len(s) >= Len(prefix) /\ SubSeq(s, 1, Len(prefix)) = prefix

\* The characters String.prototype.trim removes: white space and line
\* terminators. A character that cannot be written in a string here is
\* written as its code point.
WhiteSpace ==
    {" ", "\t", "\n", "\r", "\f", "U+000B", "U+00A0", "U+1680", "U+2000",
     "U+2001", "U+2002", "U+2003", "U+2004", "U+2005", "U+2006", "U+2007",
     "U+2008", "U+2009", "U+200A", "U+2028", "U+2029", "U+202F", "U+205F",
     "U+3000", "U+FEFF"}

\* s.trim()
Trim(s) ==
    LET inked == {i \in DOMAIN s : s[i] \notin WhiteSpace}
    IN  IF inked = {} THEN Empty
        ELSE SubSeq(s, CHOOSE i \in inked : \A j \in inked : i <= j,
                       CHOOSE i \in inked : \A j \in inked : j <= i)

(***************************************************************************)
(* new URL(url), as far as protocol, hostname and port need it: the URL    *)
(* parser called without a base, with its host parser (percent-decoding,   *)
(* domain to ASCII, IPv4 and IPv6 addresses, opaque hosts). A character    *)
(* that cannot be written in a string is written as its code point; the    *)
(* characters of a URL are the ASCII characters and such code points. The  *)
(* IDNA mapping table is given for U+0000..U+00FF, the white space beyond  *)
(* and U+FFFD: a host that holds, or decodes to, another code point has no *)
(* value here.                                                             *)
(***************************************************************************)
AsciiChars ==
    <<"U+0000", "U+0001", "U+0002", "U+0003", "U+0004", "U+0005", "U+0006",
      "U+0007", "U+0008", "\t", "\n", "U+000B", "\f", "\r", "U+000E",
      "U+000F", "U+0010", "U+0011", "U+0012", "U+0013", "U+0014", "U+0015",
      "U+0016", "U+0017", "U+0018", "U+0019", "U+001A", "U+001B", "U+001C",
      "U+001D", "U+001E", "U+001F", " ", "!", "\"", "#", "$", "%", "&",
      "'", "(", ")", "*", "+", ",", "-", ".", "/", "0", "1", "2", "3", "4",
      "5", "6", "7", "8", "9", ":", ";", "<", "=", ">", "?", "@", "A", "B",
      "C", "D", "E", "F", "G", "H", "I", "J", "K", "L", "M", "N", "O", "P",
      "Q", "R", "S", "T", "U", "V", "W", "X", "Y", "Z", "[", "\\", "]",
      "^", "_", "U+0060", "a", "b", "c", "d", "e", "f", "g", "h", "i", "j", "k",
      "l", "m", "n", "o", "p", "q", "r", "s", "t", "u", "v", "w", "x", "y",
      "z", "{", "|", "}", "~", "U+007F">>
AsciiUpper ==
    <<"A", "B", "C", "D", "E", "F", "G", "H", "I", "J", "K", "L", "M",
      "N", "O", "P", "Q", "R", "S", "T", "U", "V", "W", "X", "Y", "Z">>
AsciiLower ==
    <<"a", "b", "c", "d", "e", "f", "g", "h", "i", "j", "k", "l", "m",
      "n", "o", "p", "q", "r", "s", "t", "u", "v", "w", "x", "y", "z">>
AsciiDigits == <<"0", "1", "2", "3", "4", "5", "6", "7", "8", "9">>
HexDigits ==
    <<"0", "1", "2", "3", "4", "5", "6", "7", "8", "9",
      "A", "B", "C", "D", "E", "F">>

First(S) == CHOOSE i \in S : \A j \in S : i <= j
Last(S) == CHOOSE i \in S : \A j \in S : j <= i

Range(f) == {f[i] : i \in DOMAIN f}
IndexOf(f, c) == CHOOSE i \in DOMAIN f : f[i] = c

ToLowerChar(c) ==
    IF c \in Range(AsciiUpper) THEN AsciiLower[IndexOf(AsciiUpper, c)] ELSE c
ToLowerCase(s) == [i \in DOMAIN s |-> ToLowerChar(s[i])]

AsciiAlpha == Range(AsciiUpper) \cup Range(AsciiLower)
SchemeChars == AsciiAlpha \cup Range(AsciiDigits) \cup {"+", "-", "."}
AsciiHexDigits ==
    Range(AsciiDigits) \cup {"a", "b", "c", "d", "e", "f"}
                       \cup {"A", "B", "C", "D", "E", "F"}

\* The one element of a one-element set. The parser's steps are chained
\* through it, so that each step works on the values the one before made.
Only(S) == CHOOSE x \in S : TRUE

\* The number whose first n digits, in the given radix, are digits[1..n].
RECURSIVE Number(_, _, _)
Number(digits, radix, n) ==
    IF n = 0 THEN 0
    ELSE radix * Number(digits, radix, n - 1) + digits[n]

HexDigitValue(c) ==
    IF c \in Range(AsciiLower)
    THEN IndexOf(HexDigits, AsciiUpper[IndexOf(AsciiLower, c)]) - 1
    ELSE IndexOf(HexDigits, c) - 1

\* The scalar value of a character: its place in ASCII, or the code point
\* it is written as (a lone surrogate becomes U+FFFD when the string is
\* handed to new URL).
CodePoint(c) ==
    LET cp == IF Len(c) = 1 THEN IndexOf(AsciiChars, c) - 1
              ELSE Number([i \in 1..(Len(c) - 2) |->
                              HexDigitValue(SubSeq(c, i + 2, i + 2))],
                          16, Len(c) - 2)
    IN  IF cp \in 55296..57343 THEN 65533 ELSE cp

\* The concatenation of a sequence of strings.
Concat(ss) ==
    LET RECURSIVE ConcatTo(_)
        ConcatTo(n) == IF n = 0 THEN <<>> ELSE ConcatTo(n - 1) \o ss[n]
    IN  ConcatTo(Len(ss))

\* s split strictly on sep: the pieces between its occurrences.
SplitOn(s, sep) ==
    LET cuts == {0, Len(s) + 1} \cup {i \in DOMAIN s : s[i] = sep}
        nth(k) == CHOOSE i \in cuts : Cardinality({j \in cuts : j < i}) = k - 1
    IN  [k \in 1..(Cardinality(cuts) - 1) |->
            SubSeq(s, nth(k) + 1, nth(k + 1) - 1)]

\* The parts with sep between them.
Join(parts, sep) ==
    LET RECURSIVE JoinTo(_)
        JoinTo(n) == IF n = 0 THEN <<>>
                     ELSE IF n = 1 THEN parts[1]
                     ELSE JoinTo(n - 1) \o sep \o parts[n]
    IN  JoinTo(Len(parts))

\* C0 control or space, stripped from both ends of the input; tab and
\* newline are removed wherever they stand.
C0OrSpace == {AsciiChars[n + 1] : n \in 0..32}
TabOrNewline == {"\t", "\n", "\r"}

StripInput(s) ==
    LET kept == {i \in DOMAIN s : s[i] \notin C0OrSpace}
        core == IF kept = {} THEN <<>>
                ELSE SubSeq(s, CHOOSE i \in kept : \A j \in kept : i <= j,
                               CHOOSE i \in kept : \A j \in kept : j <= i)
    IN  SelectSeq(core, LAMBDA c : c \notin TabOrNewline)

SpecialSchemes ==
    {<<"h", "t", "t", "p">>, <<"h", "t", "t", "p", "s">>, <<"w", "s">>,
     <<"w", "s", "s">>, <<"f", "t", "p">>, <<"f", "i", "l", "e">>}
FileScheme == <<"f", "i", "l", "e">>

\* The default port of a special scheme (0: none).
DefaultPort(scheme) ==
    IF scheme \in {<<"h", "t", "t", "p">>, <<"w", "s">>} THEN 80
    ELSE IF scheme \in {<<"h", "t", "t", "p", "s">>, <<"w", "s", "s">>} THEN 443
    ELSE IF scheme = <<"f", "t", "p">> THEN 21
    ELSE 0

MaxPort == 65535

DecimalValue(s) ==
    Number([i \in DOMAIN s |-> IndexOf(AsciiDigits, s[i]) - 1], 10, Len(s))

\* The digits without their leading zeros.
StripZeros(s) ==
    LET nz == {i \in DOMAIN s : s[i] # "0"}
    IN  IF nz = {} THEN <<>> ELSE SubSeq(s, First(nz), Len(s))

RECURSIVE DecimalString(_)
DecimalString(n) ==
    IF n < 10 THEN <<AsciiDigits[n + 1]>>
    ELSE DecimalString(n \div 10) \o <<AsciiDigits[(n % 10) + 1]>>

\* Lower-case hexadecimal, without leading zeros.
RECURSIVE HexString(_)
HexString(n) ==
    IF n < 16 THEN <<ToLowerChar(HexDigits[n + 1])>>
    ELSE HexString(n \div 16) \o <<ToLowerChar(HexDigits[(n % 16) + 1])>>

\* Code points no host may hold, and those no domain may hold: these, the
\* C0 controls, "%" and U+007F.
ForbiddenHostChars ==
    {AsciiChars[1], "\t", "\n", "\r", " ", "#", "/", ":", "<", ">", "?",
     "@", "[", "\\", "]", "^", "|"}
ForbiddenDomainChars ==
    ForbiddenHostChars \cup {AsciiChars[n + 1] : n \in 0..31}
                       \cup {"%", AsciiChars[128]}

\* Failure, of the URL parser and of the parsers it calls; a host.
InvalidURL == [ok |-> FALSE]
Host(h) == [ok |-> TRUE, host |-> h]

(***************************************************************************)
(* IPv4 addresses. An IPv4 number is kept as its bytes, the least          *)
(* significant first and without leading zero bytes, so that a number of   *)
(* any length can be told from one that fits.                              *)
(***************************************************************************)
\* bytes * radix + carry
RECURSIVE MulAdd(_, _, _)
MulAdd(bytes, radix, carry) ==
    IF bytes = <<>> THEN IF carry = 0 THEN <<>> ELSE <<carry>>
    ELSE <<((bytes[1] * radix) + carry) % 256>>
         \o MulAdd(Tail(bytes), radix, ((bytes[1] * radix) + carry) \div 256)

\* The IPv4 number parser: the radix is 16 after "0x", 8 after "0", else
\* 10; the failure, or the number the digits make.
Ipv4Number(part) ==
    LET radix == IF Len(part) >= 2 /\ part[1] = "0" /\ part[2] \in {"x", "X"}
                 THEN 16
                 ELSE IF Len(part) >= 2 /\ part[1] = "0" THEN 8
                 ELSE 10
        digits == IF radix = 16 THEN SubSeq(part, 3, Len(part))
                  ELSE IF radix = 8 THEN SubSeq(part, 2, Len(part))
                  ELSE part
        radixDigits == IF radix = 16 THEN AsciiHexDigits
                       ELSE IF radix = 8
                       THEN {"0", "1", "2", "3", "4", "5", "6", "7"}
                       ELSE Range(AsciiDigits)
        RECURSIVE BytesOf(_)
        BytesOf(n) ==
            IF n = 0 THEN <<>>
            ELSE Only({MulAdd(b, radix, HexDigitValue(digits[n])) :
                         b \in {BytesOf(n - 1)}})
    IN  IF part = <<>> THEN InvalidURL
        ELSE IF \E i \in DOMAIN digits : digits[i] \notin radixDigits
        THEN InvalidURL
        ELSE [ok |-> TRUE, bytes |-> BytesOf(Len(digits))]

\* The ends-in-a-number checker.
EndsInANumber(s) ==
    LET parts == SplitOn(s, ".")
        last == IF parts[Len(parts)] = <<>> /\ Len(parts) > 1
                THEN parts[Len(parts) - 1]
                ELSE parts[Len(parts)]
    IN  \/ last # <<>> /\ \A i \in DOMAIN last : last[i] \in Range(AsciiDigits)
        \/ Ipv4Number(last).ok

\* The IPv4 parser, with the serialiser: at most four numbers, all but the
\* last below 256, and the last fills the bytes the others leave.
ParseIpv4(s) ==
    LET byteOf(bytes, k) == IF k <= Len(bytes) THEN bytes[k] ELSE 0
        address(numbers) ==
            LET n == Len(numbers)
            IN  IF \E i \in 1..(n - 1) : Len(numbers[i].bytes) > 1
                THEN InvalidURL
                ELSE IF Len(numbers[n].bytes) > 5 - n THEN InvalidURL
                ELSE Host(Join([i \in 1..4 |->
                                  DecimalString(
                                      IF i < n THEN byteOf(numbers[i].bytes, 1)
                                      ELSE byteOf(numbers[n].bytes, 5 - i))],
                               <<".">>))
    IN  Only({IF Len(parts) > 4 THEN InvalidURL
              ELSE Only({IF \E i \in DOMAIN numbers : ~numbers[i].ok
                         THEN InvalidURL
                         ELSE address(numbers) :
                           numbers \in {[i \in DOMAIN parts |->
                                            Ipv4Number(parts[i])]}}) :
                parts \in {IF SplitOn(s, ".")[Len(SplitOn(s, "."))] = <<>>
                              /\ Len(SplitOn(s, ".")) > 1
                           THEN SubSeq(SplitOn(s, "."), 1,
                                       Len(SplitOn(s, ".")) - 1)
                           ELSE SplitOn(s, ".")}})

(***************************************************************************)
(* IPv6 addresses: eight 16-bit pieces.                                    *)
(***************************************************************************)
\* The IPv6 parser. In its main loop p is the pointer, address the pieces
\* read so far and compress the number of pieces before "::" (0: none);
\* once the input is read the pieces after "::" move to the end. An IPv4
\* address may stand for the last two pieces: four decimal numbers up to
\* 255, without leading zeros.
ParseIpv6(input) ==
    LET finish(address, compress) ==
            IF compress # 0
            THEN Host(SubSeq(address, 1, compress)
                      \o [i \in 1..(8 - Len(address)) |-> 0]
                      \o SubSeq(address, compress + 1, Len(address)))
            ELSE IF Len(address) # 8 THEN InvalidURL
            ELSE Host(address)
        withIpv4(rest, address, compress) ==
            Only({IF Len(parts) # 4 THEN InvalidURL
                  ELSE IF \E i \in 1..4 :
                             \/ parts[i] = <<>>
                             \/ \E j \in DOMAIN parts[i] :
                                   parts[i][j] \notin Range(AsciiDigits)
                             \/ Len(parts[i]) > 3
                             \/ Len(parts[i]) > 1 /\ parts[i][1] = "0"
                  THEN InvalidURL
                  ELSE IF \E i \in 1..4 : DecimalValue(parts[i]) > 255
                  THEN InvalidURL
                  ELSE finish(address
                              \o <<DecimalValue(parts[1]) * 256
                                     + DecimalValue(parts[2]),
                                   DecimalValue(parts[3]) * 256
                                     + DecimalValue(parts[4])>>,
                              compress) :
                    parts \in {SplitOn(rest, ".")}})
        \* the number of hexadecimal digits from p on, up to four
        hexRun(p) ==
            LET stops == {i \in p..Len(input) : input[i] \notin AsciiHexDigits}
            IN  Min(4, (IF stops = {} THEN Len(input) + 1 ELSE First(stops)) - p)
        RECURSIVE Pieces(_, _, _)
        Pieces(p, address, compress) ==
            IF p > Len(input) THEN finish(address, compress)
            ELSE IF Len(address) = 8 THEN InvalidURL
            ELSE IF input[p] = ":"
            THEN IF compress # 0 THEN InvalidURL
                 ELSE Only({Pieces(p + 1, a, Len(a)) :
                              a \in {Append(address, 0)}})
            ELSE Only({IF q <= Len(input) /\ input[q] = "."
                       THEN IF q = p \/ Len(address) > 6 THEN InvalidURL
                            ELSE withIpv4(SubSeq(input, p, Len(input)),
                                          address, compress)
                       ELSE IF q <= Len(input) /\ input[q] # ":"
                       THEN InvalidURL
                       ELSE IF q = Len(input) THEN InvalidURL
                       ELSE Only({Pieces(q + 1, a, compress) :
                                    a \in {Append(address,
                                             Number([i \in 1..(q - p) |->
                                                       HexDigitValue(input[p + i - 1])],
                                                    16, q - p))}}) :
                         q \in {p + hexRun(p)}})
    IN  IF input # <<>> /\ input[1] = ":"
        THEN IF Len(input) < 2 \/ input[2] # ":" THEN InvalidURL
             ELSE Pieces(3, <<0>>, 1)
        ELSE Pieces(1, <<>>, 0)

\* The IPv6 serialiser: the first longest run of two or more zero pieces
\* is written "::".
SerializeIpv6(address) ==
    LET zeroRun(i) == IF address[i] # 0 THEN 0
                      ELSE First({j \in i..8 : address[j] # 0} \cup {9}) - i
        longest == Last({zeroRun(i) : i \in 1..8})
        start == First({i \in 1..8 : zeroRun(i) = longest})
        hex == [i \in 1..8 |-> HexString(address[i])]
    IN  IF longest > 1
        THEN Join(SubSeq(hex, 1, start - 1), <<":">>)
             \o <<":", ":">>
             \o Join(SubSeq(hex, start + longest, 8), <<":">>)
        ELSE Join(hex, <<":">>)

(***************************************************************************)
(* Opaque hosts, of the schemes that are not special.                      *)
(***************************************************************************)
\* The bytes of a code point in UTF-8.
Utf8Bytes(cp) ==
    IF cp < 128 THEN <<cp>>
    ELSE IF cp < 2048 THEN <<192 + (cp \div 64), 128 + (cp % 64)>>
    ELSE IF cp < 65536
    THEN <<224 + (cp \div 4096), 128 + ((cp \div 64) % 64), 128 + (cp % 64)>>
    ELSE <<240 + (cp \div 262144), 128 + ((cp \div 4096) % 64),
           128 + ((cp \div 64) % 64), 128 + (cp % 64)>>

\* UTF-8 percent-encoding with the C0 control percent-encode set.
PercentEncodeC0(c) ==
    LET byte(b) == <<"%", HexDigits[(b \div 16) + 1], HexDigits[(b % 16) + 1]>>
    IN  IF CodePoint(c) < 32 \/ CodePoint(c) > 126
        THEN Concat([i \in DOMAIN Utf8Bytes(CodePoint(c)) |->
                        byte(Utf8Bytes(CodePoint(c))[i])])
        ELSE <<c>>

\* The opaque-host parser.
ParseOpaqueHost(input) ==
    IF \E i \in DOMAIN input : input[i] \in ForbiddenHostChars
    THEN InvalidURL
    ELSE Host(Concat([i \in DOMAIN input |-> PercentEncodeC0(input[i])]))

(***************************************************************************)
(* Domains, of the special schemes: the host is percent-decoded, decoded   *)
(* as UTF-8 and taken through domain to ASCII.                             *)
(***************************************************************************)
\* Percent-decoding of a byte sequence: -1 marks the two bytes an escape
\* took.
PercentDecode(bytes) ==
    LET isHex(b) == b \in 48..57 \/ b \in 65..70 \/ b \in 97..102
        hexValue(b) == IF b \in 48..57 THEN b - 48
                       ELSE IF b \in 65..70 THEN b - 55
                       ELSE b - 87
        escape(i) == /\ i >= 1
                     /\ i + 2 <= Len(bytes)
                     /\ bytes[i] = 37
                     /\ isHex(bytes[i + 1])
                     /\ isHex(bytes[i + 2])
    IN  SelectSeq([i \in DOMAIN bytes |->
                      IF escape(i)
                      THEN 16 * hexValue(bytes[i + 1]) + hexValue(bytes[i + 2])
                      ELSE IF escape(i - 1) \/ escape(i - 2) THEN -1
                      ELSE bytes[i]],
                  LAMBDA b : b # -1)

\* UTF-8 decode without BOM. At byte i: the bytes that must follow the lead
\* byte, the range of the k-th of them, and the code point they make; a
\* byte that fits nowhere gives U+FFFD, and a byte that ends a sequence
\* early is read again.
Utf8Decode(bytes) ==
    LET needed(lead) == IF lead \in 194..223 THEN 1
                        ELSE IF lead \in 224..239 THEN 2
                        ELSE IF lead \in 240..244 THEN 3
                        ELSE 0
        lower(lead, k) == IF k = 1 /\ lead = 224 THEN 160
                          ELSE IF k = 1 /\ lead = 240 THEN 144
                          ELSE 128
        upper(lead, k) == IF k = 1 /\ lead = 237 THEN 159
                          ELSE IF k = 1 /\ lead = 244 THEN 143
                          ELSE 191
        value(i) ==
            IF needed(bytes[i]) = 1
            THEN (bytes[i] - 192) * 64 + (bytes[i + 1] - 128)
            ELSE IF needed(bytes[i]) = 2
            THEN (bytes[i] - 224) * 4096 + (bytes[i + 1] - 128) * 64
                 + (bytes[i + 2] - 128)
            ELSE (bytes[i] - 240) * 262144 + (bytes[i + 1] - 128) * 4096
                 + (bytes[i + 2] - 128) * 64 + (bytes[i + 3] - 128)
        RECURSIVE DecodeFrom(_)
        DecodeFrom(i) ==
            IF i > Len(bytes) THEN <<>>
            ELSE IF bytes[i] < 128 THEN <<bytes[i]>> \o DecodeFrom(i + 1)
            ELSE IF needed(bytes[i]) = 0 THEN <<65533>> \o DecodeFrom(i + 1)
            ELSE Only({IF bad # {}
                       THEN <<65533>>
                            \o Only({DecodeFrom(j) : j \in {i + First(bad)}})
                       ELSE <<value(i)>>
                            \o Only({DecodeFrom(j) :
                                       j \in {i + needed(bytes[i]) + 1}}) :
                         bad \in {{k \in 1..needed(bytes[i]) :
                                     \/ i + k > Len(bytes)
                                     \/ bytes[i + k] < lower(bytes[i], k)
                                     \/ bytes[i + k] > upper(bytes[i], k)}}})
    IN  DecodeFrom(1)

\* The IDNA mapping table, as far as it is given here: the status of a code
\* point and what it is mapped to.
IdnaEntry(cp) ==
    LET Valid == [status |-> "valid", mapping |-> <<cp>>]
        Mapped(cps) == [status |-> "mapped", mapping |-> cps]
        Ignored == [status |-> "ignored", mapping |-> <<>>]
        Disallowed == [status |-> "disallowed", mapping |-> <<cp>>]
        Deviation == [status |-> "deviation", mapping |-> <<cp>>]
    IN  CASE cp \in 65..90 -> Mapped(<<cp + 32>>)
          [] cp \in 0..64 \/ cp \in 91..127 -> Valid
          [] cp \in 128..159 -> Disallowed
          [] cp = 160 -> Mapped(<<32>>)
          [] cp \in 161..167 -> Valid
          [] cp = 168 -> Mapped(<<32, 776>>)
          [] cp = 169 -> Valid
          [] cp = 170 -> Mapped(<<97>>)
          [] cp \in 171..172 -> Valid
          [] cp = 173 -> Ignored
          [] cp = 174 -> Valid
          [] cp = 175 -> Mapped(<<32, 772>>)
          [] cp \in 176..177 -> Valid
          [] cp = 178 -> Mapped(<<50>>)
          [] cp = 179 -> Mapped(<<51>>)
          [] cp = 180 -> Mapped(<<32, 769>>)
          [] cp = 181 -> Mapped(<<956>>)
          [] cp \in 182..183 -> Valid
          [] cp = 184 -> Mapped(<<32, 807>>)
          [] cp = 185 -> Mapped(<<49>>)
          [] cp = 186 -> Mapped(<<111>>)
          [] cp = 187 -> Valid
          [] cp = 188 -> Mapped(<<49, 8260, 52>>)
          [] cp = 189 -> Mapped(<<49, 8260, 50>>)
          [] cp = 190 -> Mapped(<<51, 8260, 52>>)
          [] cp = 191 -> Valid
          [] cp \in 192..214 -> Mapped(<<cp + 32>>)
          [] cp = 215 -> Valid
          [] cp \in 216..222 -> Mapped(<<cp + 32>>)
          [] cp = 223 -> Deviation
          [] cp \in 224..255 -> Valid
          [] cp = 5760 -> Disallowed
          [] cp \in 8192..8202 -> Mapped(<<32>>)
          [] cp \in 8232..8233 -> Disallowed
          [] cp = 8239 -> Mapped(<<32>>)
          [] cp = 8287 -> Mapped(<<32>>)
          [] cp = 12288 -> Mapped(<<32>>)
          [] cp = 65279 -> Ignored
          [] cp = 65533 -> Disallowed

(***************************************************************************)
(* Punycode.                                                               *)
(***************************************************************************)
MaxInt == 2147483647

\* The threshold of the digit at position k.
Threshold(k, bias) ==
    IF k <= bias THEN 1 ELSE IF k >= bias + 26 THEN 26 ELSE k - bias

\* The bias adaptation.
Adapt(delta, numpoints, first) ==
    LET RECURSIVE AdaptLoop(_, _)
        AdaptLoop(d, k) ==
            IF d > 455 THEN AdaptLoop(d \div 35, k + 36)
            ELSE k + ((36 * d) \div (d + 38))
    IN  Only({AdaptLoop(d + (d \div numpoints), 0) :
                d \in {IF first THEN delta \div 700 ELSE delta \div 2}})

\* q as a generalised variable-length integer, from the digit at k on.
RECURSIVE PunyInteger(_, _, _)
PunyInteger(q, k, bias) ==
    LET digit(d) == IF d < 26 THEN 97 + d ELSE 22 + d
        t == Threshold(k, bias)
    IN  IF q < t THEN <<digit(q)>>
        ELSE <<digit(t + ((q - t) % (36 - t)))>>
             \o PunyInteger((q - Threshold(k, bias)) \div (36 - Threshold(k, bias)),
                            k + 36, bias)

\* Punycode of a label: its basic code points, then one integer for each
\* of the others, taken by rising code point and, among equals, by place.
PunycodeEncode(label) ==
    LET basic == SelectSeq(label, LAMBDA c : c < 128)
        others == {p \in DOMAIN label : label[p] >= 128}
        before(p, q) == label[p] < label[q] \/ (label[p] = label[q] /\ p < q)
        kth(k) == CHOOSE p \in others :
                     Cardinality({q \in others : before(q, p)}) = k - 1
        place(p) == Cardinality({q \in DOMAIN label :
                                    q < p /\ label[q] <= label[p]})
        delta(k) == IF k = 1
                    THEN (label[kth(1)] - 128) * (Len(basic) + 1) + place(kth(1))
                    ELSE (label[kth(k)] - label[kth(k - 1)]) * (Len(basic) + k)
                         + place(kth(k)) - (place(kth(k - 1)) + 1)
        bias(k) == IF k = 1 THEN 72
                   ELSE Adapt(delta(k - 1), Len(basic) + k - 1, k = 2)
    IN  basic
        \o (IF basic # <<>> THEN <<45>> ELSE <<>>)
        \o Concat([k \in 1..Cardinality(others) |->
                      Only({PunyInteger(d, 36, b) :
                              d \in {delta(k)}, b \in {bias(k)}})])

\* The Punycode decoder. The basic code points stand before the last "-",
\* which is skipped also when nothing stands before it; the digits are the
\* lower-case letters and the decimal digits. In the main loop pos is the
\* place in the input, n the code point and i the place in the output
\* reached so far; one integer of the input, from the digit at j on, is
\* added to i with weight w.
PunycodeDecode(input) ==
    LET digit(c) == IF c \in 97..122 THEN c - 97
                    ELSE IF c \in 48..57 THEN c - 22
                    ELSE 36
        RECURSIVE DecodeInteger(_, _, _, _, _)
        DecodeInteger(j, i, w, k, bias) ==
            IF j > Len(input) THEN InvalidURL
            ELSE IF digit(input[j]) >= 36 THEN InvalidURL
            ELSE IF digit(input[j]) > (MaxInt - i) \div w THEN InvalidURL
            ELSE IF digit(input[j]) < Threshold(k, bias)
            THEN [ok |-> TRUE, value |-> i + digit(input[j]) * w, next |-> j + 1]
            ELSE IF w > MaxInt \div (36 - Threshold(k, bias)) THEN InvalidURL
            ELSE Only({DecodeInteger(j + 1, i2, w2, k + 36, bias) :
                         i2 \in {i + digit(input[j]) * w},
                         w2 \in {w * (36 - Threshold(k, bias))}})
        RECURSIVE DecodeLoop(_, _, _, _, _)
        DecodeLoop(pos, n, i, bias, output) ==
            IF pos > Len(input) THEN [ok |-> TRUE, label |-> output]
            ELSE Only({IF ~r.ok THEN InvalidURL
                       ELSE IF r.value \div (Len(output) + 1) > MaxInt - n
                       THEN InvalidURL
                       ELSE IF n + (r.value \div (Len(output) + 1)) > 1114111
                       THEN InvalidURL
                       ELSE Only({DecodeLoop(r.next, n2, at + 1, b2,
                                             SubSeq(output, 1, at) \o <<n2>>
                                             \o SubSeq(output, at + 1, Len(output))) :
                                    n2 \in {n + (r.value \div (Len(output) + 1))},
                                    at \in {r.value % (Len(output) + 1)},
                                    b2 \in {Adapt(r.value - i, Len(output) + 1,
                                                  i = 0)}}) :
                         r \in {DecodeInteger(pos, i, 1, 36, bias)}})
        dashes == {j \in DOMAIN input : input[j] = 45}
    IN  IF dashes = {} THEN DecodeLoop(1, 128, 0, 72, <<>>)
        ELSE DecodeLoop(Last(dashes) + 1, 128, 0, 72,
                        SubSeq(input, 1, Last(dashes) - 1))

(***************************************************************************)
(* Domain to ASCII (Unicode ToASCII, not strict, not transitional).        *)
(***************************************************************************)
\* Whether a label starts with "xn--".
HasXnPrefix(label) ==
    Len(label) >= 4 /\ SubSeq(label, 1, 4) = <<120, 110, 45, 45>>

\* A mapped label in ASCII form. A Punycode label is kept as it stands: it
\* has to be ASCII and to decode to a label that is not empty and holds
\* only valid code points. Another label with a code point beyond ASCII is
\* encoded.
LabelToAscii(label) ==
    IF HasXnPrefix(label)
    THEN IF \E i \in DOMAIN label : label[i] >= 128 THEN InvalidURL
         ELSE Only({IF ~decoded.ok THEN InvalidURL
                    ELSE IF decoded.label = <<>> THEN InvalidURL
                    ELSE IF \E i \in DOMAIN decoded.label :
                               IdnaEntry(decoded.label[i]).status
                                  \notin {"valid", "deviation"}
                    THEN InvalidURL
                    ELSE Host(label) :
                      decoded \in {PunycodeDecode(SubSeq(label, 5,
                                                         Len(label)))}})
    ELSE IF \E i \in DOMAIN label : label[i] >= 128
    THEN Host(<<120, 110, 45, 45>> \o PunycodeEncode(label))
    ELSE Host(label)

\* Unicode ToASCII: map, then (the code points given here are all in
\* normal form) split into labels, convert each and join them again.
UnicodeToAscii(domain) ==
    IF \E i \in DOMAIN domain : IdnaEntry(domain[i]).status = "disallowed"
    THEN InvalidURL
    ELSE Only({IF \E i \in DOMAIN ascii : ~ascii[i].ok THEN InvalidURL
               ELSE Host(Join([i \in DOMAIN ascii |-> ascii[i].host], <<46>>)) :
                 ascii \in {Only({[i \in DOMAIN labels |->
                                     LabelToAscii(labels[i])] :
                                   labels \in {SplitOn(
                                       Concat([i \in DOMAIN domain |->
                                                 IdnaEntry(domain[i]).mapping]),
                                       46)}})}})

\* Domain to ASCII: for an ASCII domain without a Punycode label this is
\* lower-casing. An empty result is a failure.
DomainToAscii(domain) ==
    LET lowerCase(s) == [i \in DOMAIN s |->
                            IF s[i] \in 65..90 THEN s[i] + 32 ELSE s[i]]
    IN  IF /\ \A i \in DOMAIN domain : domain[i] < 128
           /\ \A label \in Range(SplitOn(domain, 46)) :
                 ~HasXnPrefix(lowerCase(label))
        THEN Host(lowerCase(domain))
        ELSE Only({IF r.ok /\ r.host = <<>> THEN InvalidURL ELSE r :
                     r \in {UnicodeToAscii(domain)}})

\* The domain of a special scheme's host, or the IPv4 address it stands
\* for.
ParseDomain(input) ==
    Only({IF ~r.ok THEN InvalidURL
          ELSE Only({IF \E i \in DOMAIN ascii : ascii[i] \in ForbiddenDomainChars
                     THEN InvalidURL
                     ELSE IF EndsInANumber(ascii) THEN ParseIpv4(ascii)
                     ELSE Host(ascii) :
                       ascii \in {[i \in DOMAIN r.host |->
                                     AsciiChars[r.host[i] + 1]]}}) :
            r \in {Only({DomainToAscii(domain) :
                           domain \in {Utf8Decode(PercentDecode(
                               Concat([i \in DOMAIN input |->
                                         Utf8Bytes(CodePoint(input[i]))])))}})}})

\* The host parser.
HostParser(input, isOpaque) ==
    IF input # <<>> /\ input[1] = "["
    THEN IF input[Len(input)] # "]" THEN InvalidURL
         ELSE Only({IF ~r.ok THEN InvalidURL
                    ELSE Host(<<"[">> \o SerializeIpv6(r.host) \o <<"]">>) :
                      r \in {ParseIpv6(SubSeq(input, 2, Len(input) - 1))}})
    ELSE IF isOpaque THEN ParseOpaqueHost(input)
    ELSE ParseDomain(input)

(***************************************************************************)
(* The states of the URL parser that lead to scheme, host and port.        *)
(***************************************************************************)
NoHost(scheme) ==
    [ok |-> TRUE, protocol |-> scheme \o <<":">>,
     hostname |-> <<>>, port |-> <<>>]

\* The port state: digits only, at most 65535; a special scheme's default
\* port is dropped.
ParsePort(hostname, port, scheme, special) ==
    IF \E i \in DOMAIN port : port[i] \notin Range(AsciiDigits)
    THEN InvalidURL
    ELSE IF Len(StripZeros(port)) > 5 THEN InvalidURL
    ELSE IF DecimalValue(StripZeros(port)) > MaxPort THEN InvalidURL
    ELSE [ok |-> TRUE,
          protocol |-> scheme \o <<":">>,
          hostname |-> hostname,
          port |-> IF port = <<>> THEN <<>>
                   ELSE IF special
                           /\ DecimalValue(StripZeros(port)) = DefaultPort(scheme)
                   THEN <<>>
                   ELSE DecimalString(DecimalValue(StripZeros(port)))]

\* The host state once its buffer is cut: the host parser, then the port.
\* A file URL has the file host state instead: no port; a Windows drive
\* letter (a letter and ":" or "|") is the start of the path, and
\* localhost is the empty host.
ParseHost(buffer, port, scheme, special) ==
    IF scheme = FileScheme /\ port # <<>> THEN InvalidURL
    ELSE IF /\ scheme = FileScheme
            /\ \/ buffer = <<>>
               \/ /\ Len(buffer) = 2
                  /\ buffer[1] \in AsciiAlpha
                  /\ buffer[2] \in {":", "|"}
    THEN NoHost(scheme)
    ELSE Only({IF ~host.ok THEN InvalidURL
               ELSE IF scheme = FileScheme
               THEN [ok |-> TRUE, protocol |-> scheme \o <<":">>,
                     hostname |->
                         IF host.host = <<"l", "o", "c", "a", "l", "h", "o", "s", "t">>
                         THEN <<>>
                         ELSE host.host,
                     port |-> <<>>]
               ELSE ParsePort(host.host, port, scheme, special) :
                 host \in {HostParser(buffer, ~special)}})

\* The host state: the buffer ends at the first ":" outside brackets, and
\* the port follows it. The file host state reads no port: its buffer is
\* all there is.
ParseHostPort(hostport, scheme, special) ==
    LET inside(i) ==
            \E j \in 1..(i - 1) :
               /\ hostport[j] = "["
               /\ \A k \in (j + 1)..(i - 1) : hostport[k] # "]"
        colons == IF scheme = FileScheme THEN {}
                  ELSE {i \in DOMAIN hostport :
                           hostport[i] = ":" /\ ~inside(i)}
    IN  IF colons # {} /\ First(colons) = 1 THEN InvalidURL
        ELSE IF /\ special
                /\ scheme # FileScheme
                /\ hostport = <<>>
        THEN InvalidURL
        ELSE Only({ParseHost(buffer, port, scheme, special) :
                     buffer \in {IF colons = {} THEN hostport
                                 ELSE SubSeq(hostport, 1, First(colons) - 1)},
                     port \in {IF colons = {} THEN <<>>
                               ELSE SubSeq(hostport, First(colons) + 1,
                                           Len(hostport))}})

\* The authority state: what stands before the last "@" is userinfo; a
\* host must follow it. A file URL has no userinfo: all is its host.
ParseAuthority(authority, scheme, special) ==
    LET ats == IF scheme = FileScheme THEN {}
               ELSE {i \in DOMAIN authority : authority[i] = "@"}
    IN  IF ats # {} /\ Last(ats) = Len(authority) THEN InvalidURL
        ELSE Only({ParseHostPort(hostport, scheme, special) :
                     hostport \in {IF ats = {} THEN authority
                                   ELSE SubSeq(authority, Last(ats) + 1,
                                               Len(authority))}})

\* What stands at from and after, up to the first of the stops.
UpTo(s, from, stops) ==
    LET ends == {i \in from..Len(s) : s[i] \in stops}
    IN  SubSeq(s, from, IF ends = {} THEN Len(s) ELSE First(ends) - 1)

\* What follows "scheme:". The file scheme has a host after two slashes; a
\* special scheme takes any run of slashes and backslashes before its
\* authority; another scheme has an authority only after "//".
ParseAfterScheme(scheme, after) ==
    LET special == scheme \in SpecialSchemes
        slash == IF special THEN {"/", "\\"} ELSE {"/"}
        nonSlash == {i \in DOMAIN after : after[i] \notin slash}
        lead == IF nonSlash = {} THEN Len(after) ELSE First(nonSlash) - 1
        anySlashes == special /\ scheme # FileScheme
    IN  IF ~anySlashes /\ lead < 2 THEN NoHost(scheme)
        ELSE Only({ParseAuthority(authority, scheme, special) :
                     authority \in {UpTo(after,
                                         IF anySlashes THEN lead + 1 ELSE 3,
                                         slash \cup {"?", "#"})}})

\* The scheme: a letter, then letters, digits, "+", "-", ".", up to the
\* first ":"; lower case.
ParseScheme(s) ==
    LET colons == {i \in DOMAIN s : s[i] = ":"}
    IN  IF s = <<>> \/ colons = {} THEN InvalidURL
        ELSE IF s[1] \notin AsciiAlpha THEN InvalidURL
        ELSE IF \E i \in 1..(First(colons) - 1) : s[i] \notin SchemeChars
        THEN InvalidURL
        ELSE Only({ParseAfterScheme(scheme, after) :
                     scheme \in {ToLowerCase(SubSeq(s, 1, First(colons) - 1))},
                     after \in {SubSeq(s, First(colons) + 1, Len(s))}})

\* new URL(input): [ok |-> FALSE] when it throws TypeError.
ParseURL(input) == Only({ParseScheme(s) : s \in {StripInput(input)}})

\* What stands for the TypeError new URL throws.
TypeError == <<"TypeError: Invalid URL">>

\* new URL(url).protocol: the scheme in lower case with its colon.
UrlProtocol(url) ==
    Only({IF urlObj.ok THEN urlObj.protocol ELSE TypeError :
            urlObj \in {ParseURL(url)}})

\* new URL(url).hostname: the serialised host, without userinfo and port.
UrlHostname(url) ==
    Only({IF urlObj.ok THEN urlObj.hostname ELSE TypeError :
            urlObj \in {ParseURL(url)}})

TitleCap == 200
DescCap == 500

NoTitleFound == <<"No title found">>
NoDescription == <<"No description available">>
UnableToFetchTitle == <<"Unable to fetch title">>
CouldNotRetrieve == <<"Could not retrieve page information">>

\* The result of the catch block of fetchUrlMetadata.
Placeholder ==
    [title |-> UnableToFetchTitle,
     description |-> CouldNotRetrieve,
     favicon_url |-> Null]

\* The selectors tried for the favicon, in order: rel and, for the last two,
\* type ("" = any).
FaviconSelectors ==
    <<[rel |-> "icon", type |-> ""],
      [rel |-> "shortcut icon", type |-> ""],
      [rel |-> "apple-touch-icon", type |-> ""],
      [rel |-> "icon", type |-> "image/png"],
      [rel |-> "icon", type |-> "image/x-icon"]>>

\* [name="value"] on an HTML document, for the attributes rel and type: the
\* value of the element's attribute is compared without regard to case.
AttrEquals(attr, value) ==
    LET chars(s) == [i \in 1..Len(s) |-> SubSeq(s, i, i)]
    IN  /\ Len(attr) = Len(value)
        /\ ToLowerCase(chars(attr)) = ToLowerCase(chars(value))

\* $(selector).attr('href'): the href of the first <link> the selector
\* matches (undefined when none matches or that one has no href).
SelectHref(links, sel) ==
    LET hits == {i \in DOMAIN links :
                    /\ AttrEquals(links[i].rel, sel.rel)
                    /\ sel.type = "" \/ AttrEquals(links[i].type, sel.type)}
    IN  IF hits = {} THEN Empty
        ELSE links[CHOOSE i \in hits : \A j \in hits : i <= j].href

\* for (const selector of faviconSelectors) { ...; if (faviconUrl) break; }
FirstFavicon(links) ==
    LET found == {k \in DOMAIN FaviconSelectors :
                     SelectHref(links, FaviconSelectors[k]) # Empty}
    IN  IF found = {}
        THEN SelectHref(links, FaviconSelectors[Len(FaviconSelectors)])
        ELSE SelectHref(links,
                 FaviconSelectors[CHOOSE k \in found : \A j \in found : k <= j])

\* `${urlObj.protocol}//${urlObj.hostname}` followed by tail, or TypeError
\* when new URL(url) throws.
WithOrigin(url, tail) ==
    Only({IF protocol = TypeError THEN TypeError
          ELSE protocol \o <<"/", "/">> \o UrlHostname(url) \o tail :
            protocol \in {UrlProtocol(url)}})

\* The favicon URL made of what the selectors found and the target's URL.
ResolveFavicon(url, href) ==
    IF href = Empty
    THEN WithOrigin(url, <<"/", "f", "a", "v", "i", "c", "o", "n", ".", "i", "c", "o">>)
    ELSE IF StartsWith(href, <<"/">>)
    THEN WithOrigin(url, href)
    ELSE IF ~StartsWith(href, <<"h", "t", "t", "p">>)
    THEN WithOrigin(url, <<"/">> \o href)
    ELSE href

OrElse(a, b) == IF a # Empty THEN a ELSE b

\* What axios.get and cheerio.load give for a target: a failure (the request
\* or the parse throws) or the parts of the page the extraction reads.
FetchError == [ok |-> FALSE]
Page(title, ogTitle, desc, ogDesc, links) ==
    [ok |-> TRUE, title |-> title, ogTitle |-> ogTitle,
     description |-> desc, ogDescription |-> ogDesc, links |-> links]

\* fetchUrlMetadata(url), given what the fetch of url produced. Whatever is
\* thrown inside the try block ends in the catch block.
FetchUrlMetadata(url, fetched) ==
    IF ~fetched.ok THEN Placeholder
    ELSE
      LET title == OrElse(OrElse(Trim(fetched.title), fetched.ogTitle),
                          NoTitleFound)
          description == OrElse(OrElse(fetched.description,
                                       fetched.ogDescription),
                                NoDescription)
          faviconUrl0 == ResolveFavicon(url, FirstFavicon(fetched.links))
      IN  IF faviconUrl0 = TypeError THEN Placeholder
          ELSE [title |-> Substring0(title, TitleCap),
                description |-> Substring0(description, DescCap),
                favicon_url |-> faviconUrl0]

\* Whether fetchUrlMetadata(url) ends in its catch block.
FetchThrows(url, fetched) ==
    \/ ~fetched.ok
    \/ ResolveFavicon(url, FirstFavicon(fetched.links)) = TypeError

(***************************************************************************)
(* Inputs of the metadata service.                                         *)
(***************************************************************************)
\* Number of POST /api/metadata requests.
NumMetaRequests == 2
MetaRequests == 1..NumMetaRequests

\* short_code values of a body; "" stands for a missing or empty field.
MetaCodes == {"abc123", "xyz789"}
Link(rel, type, href) == [rel |-> rel, type |-> type, href |-> href]

\* What the fetch of a target can produce.
Fetched ==
    {FetchError,
     Page(<<"\n", "\t", "E", "x", " ">>, Empty, <<"A", " ", "p", "a", "g", "e">>, Empty,
          <<Link("icon", "image/png", <<"/", "i", ".", "p", "n", "g">>)>>),
     Page(<<" ", "\r", "\n">>, <<"O", "G">>, Empty, <<"o", "g">>, <<>>)}

\* The bodies of the POST requests: two complete ones, one without
\* short_code and one without long_url.
MetaBodies ==
    {[short_code |-> "abc123", long_url |-> <<"h", "t", "t", "p", "s", ":", "/", "/", "a", ".", "i", "o", "/", "p">>],
     [short_code |-> "xyz789", long_url |-> <<"H", "T", "T", "P", ":", "/", "/", "u", "@", "B", ".", "i", "o", ":", "8", "1">>],
     [short_code |-> "", long_url |-> <<"h", "t", "t", "p", "s", ":", "/", "/", "a", ".", "i", "o", "/", "p">>],
     [short_code |-> "abc123", long_url |-> Empty]}

NoBody == [short_code |-> "", long_url |-> Empty]
NoMeta == [title |-> Empty, description |-> Empty, favicon_url |-> Null]
NoStmt == [state |-> "none"]

\* metadata.db as initDatabase finds it: CREATE TABLE IF NOT EXISTS keeps
\* the rows of an earlier run.
MetaInitialStores ==
    {<<>>,
     <<[short_code |-> "abc123",
        url |-> <<"h", "t", "t", "p", "s", ":", "/", "/", "o", "l", "d", ".", "i", "o", "/">>,
        title |-> <<"O", "l", "d">>,
        description |-> NoDescription,
        favicon_url |-> <<"h", "t", "t", "p", "s", ":", "/", "/", "o", "l", "d", ".", "i", "o", "/", "f", "a", "v", "i", "c", "o", "n", ".", "i", "c", "o">>]>>}

VARIABLES
    \* ---- Go service ----
    urls,        \* the urls table: a sequence of rows, id = position
    dbUp,        \* whether go.db answers queries
    cpc,         \* createShortURL: position of each request
    req,         \* createShortURL: req.LongURL
    shortCode,   \* createShortURL: local shortCode (NoCode once it returned)
    exists,      \* createShortURL: local exists
    cresp,       \* createShortURL: the response written
    rpc,         \* redirect: position of each request
    rcode,       \* redirect: c.Param("code")
    longURL,     \* redirect: local longURL
    rresp,       \* redirect: the response written
    gpc,         \* sendClickEvent goroutine: position
    attempts,    \* history: number of client.Post calls of the goroutine
    glog,        \* sendClickEvent: the line it logged
    net,         \* the notification's HTTP exchange
    \* ---- Analytics service ----
    analyticsUp, \* whether the Analytics Service accepts connections
    click_events,\* the click_events table
    \* ---- Metadata service ----
    metadata,    \* the metadata table: rows in rowid order
    metaDbUp,    \* whether node.db executes statements
    mpc,         \* POST /api/metadata: position of each request
    mbody,       \* POST /api/metadata: req.body
    mmeta,       \* POST /api/metadata: what fetchUrlMetadata returned
    mlog,        \* the console lines the request caused
    mstmt,       \* the outcome of the request's SQL statement, callback due
    mresp,       \* the response written
    \* ---- favicon resolution of fetchUrlMetadata, run on its own ----
    favTarget,   \* fetchUrlMetadata: url
    favLinks,    \* the <link> elements of the fetched page
    faviconUrl   \* fetchUrlMetadata: faviconUrl after resolution

goVars == <<urls, dbUp, cpc, req, shortCode, exists, cresp>>
redirVars == <<rpc, rcode, longURL, rresp>>
notifyVars == <<gpc, attempts, glog, net, analyticsUp, click_events>>
metaVars == <<metadata, metaDbUp, mpc, mbody, mmeta, mlog, mstmt, mresp>>
fnVars == <<favTarget, favLinks, faviconUrl>>
vars == <<goVars, redirVars, notifyVars, metaVars, fnVars>>

NoResp == [status |-> 0]

(***************************************************************************)
(* The urls table (initDB): short_code TEXT UNIQUE NOT NULL.               *)
(***************************************************************************)
Row(code, url) == [short_code |-> code, long_url |-> url]

\* SELECT COUNT(*) FROM urls WHERE short_code = ?
CountCode(tbl, code) == Cardinality({i \in DOMAIN tbl : tbl[i].short_code = code})

StoredCodes(tbl) == {tbl[i].short_code : i \in DOMAIN tbl}

\* SELECT long_url FROM urls WHERE short_code = ? (first matching row)
LookupURL(tbl, code) ==
    LET hits == {i \in DOMAIN tbl : tbl[i].short_code = code}
    IN  tbl[CHOOSE i \in hits : \A j \in hits : i <= j].long_url

\* A plain table without the UNIQUE constraint: every insert is accepted.
UrlsInsertNoUnique(tbl, code, url) ==
    [ok |-> TRUE, tbl |-> Append(tbl, Row(code, url))]

\* INSERT OR REPLACE: a conflicting row is replaced by the new one.
UrlsInsertOrReplace(tbl, code, url) ==
    [ok |-> TRUE,
     tbl |-> IF code \in StoredCodes(tbl)
             THEN [i \in DOMAIN tbl |-> IF tbl[i].short_code = code
                                        THEN Row(code, url) ELSE tbl[i]]
             ELSE Append(tbl, Row(code, url))]

\* INSERT INTO urls (short_code, long_url) VALUES (?, ?) under the UNIQUE
\* constraint on short_code: a duplicate is rejected and the table is left
\* as it was.
UrlsInsert(tbl, code, url) ==
    IF code \in StoredCodes(tbl)
    THEN [ok |-> FALSE, tbl |-> tbl]
    ELSE [ok |-> TRUE, tbl |-> Append(tbl, Row(code, url))]

\* The tables go.db may hold when the service starts (CREATE TABLE IF NOT
\* EXISTS keeps the rows of earlier runs): empty, or one row of an earlier run.
InitialStores == {<<>>, <<Row(GenerateShortCode(RandRead(1)), "u1")>>}

\* No run of the favicon resolution on its own.
NotCalled == <<>>

FnIdle ==
    /\ favTarget = NotCalled
    /\ favLinks = NotCalled
    /\ faviconUrl = NotCalled

ServicesInit ==
    /\ urls \in InitialStores
    /\ dbUp = TRUE
    /\ cpc = [p \in Creators |-> "idle"]
    /\ req = [p \in Creators |-> NoURL]
    /\ shortCode = [p \in Creators |-> NoCode]
    /\ exists = [p \in Creators |-> 0]
    /\ cresp = [p \in Creators |-> NoResp]
    /\ rpc = [r \in Redirects |-> "idle"]
    /\ rcode = [r \in Redirects |-> NoCode]
    /\ longURL = [r \in Redirects |-> NoURL]
    /\ rresp = [r \in Redirects |-> NoResp]
    /\ gpc = [r \in Redirects |-> "none"]
    /\ attempts = [r \in Redirects |-> 0]
    /\ glog = [r \in Redirects |-> "none"]
    /\ net = [r \in Redirects |-> "idle"]
    /\ analyticsUp = TRUE
    /\ click_events = <<>>
    /\ metadata \in MetaInitialStores
    /\ metaDbUp = TRUE
    /\ mpc = [m \in MetaRequests |-> "idle"]
    /\ mbody = [m \in MetaRequests |-> NoBody]
    /\ mmeta = [m \in MetaRequests |-> NoMeta]
    /\ mlog = [m \in MetaRequests |-> <<>>]
    /\ mstmt = [m \in MetaRequests |-> NoStmt]
    /\ mresp = [m \in MetaRequests |-> NoResp]

\* The Go service at start; the metadata service, which shares nothing with
\* it, is left at rest on an empty table.
Init == ServicesInit /\ FnIdle /\ metadata = <<>>

(***************************************************************************)
(* The environment of the Go service: go.db may stop and resume answering. *)
(***************************************************************************)
DbFail ==
    /\ dbUp
    /\ dbUp' = FALSE
    /\ UNCHANGED <<urls, cpc, req, shortCode, exists, cresp>>
    /\ UNCHANGED <<redirVars, notifyVars, metaVars, fnVars>>

DbRecover ==
    /\ ~dbUp
    /\ dbUp' = TRUE
    /\ UNCHANGED <<urls, cpc, req, shortCode, exists, cresp>>
    /\ UNCHANGED <<redirVars, notifyVars, metaVars, fnVars>>

(***************************************************************************)
(* POST /api/shorten: createShortURL.                                      *)
(***************************************************************************)
\* ShouldBindJSON and the first generateShortCode(), rand.Read leaving b.
CreateStart(p, url, b) ==
    /\ cpc[p] = "idle"
    /\ rpc[p] = "idle"
    /\ req' = [req EXCEPT ![p] = url]
    /\ IF url = NoURL
       THEN /\ cpc' = [cpc EXCEPT ![p] = "done"]
            /\ cresp' = [cresp EXCEPT ![p] = [status |-> StatusBadRequest]]
            /\ UNCHANGED shortCode
       ELSE /\ cpc' = [cpc EXCEPT ![p] = "check"]
            /\ shortCode' = [shortCode EXCEPT ![p] = GenerateShortCode(b)]
            /\ UNCHANGED cresp
    /\ UNCHANGED <<urls, dbUp, exists>>
    /\ UNCHANGED <<redirVars, notifyVars, metaVars, fnVars>>

\* An existence check that never reports the code as present.
CreateCheckBlind(p) ==
    /\ cpc[p] = "check"
    /\ IF dbUp
       THEN /\ exists' = [exists EXCEPT ![p] = 0]
            /\ cpc' = [cpc EXCEPT ![p] = "loop"]
            /\ UNCHANGED <<cresp, shortCode>>
       ELSE /\ cpc' = [cpc EXCEPT ![p] = "done"]
            /\ cresp' = [cresp EXCEPT ![p] =
                           [status |-> StatusInternalServerError,
                            error |-> "Database error"]]
            /\ shortCode' = [shortCode EXCEPT ![p] = NoCode]
            /\ UNCHANGED exists
    /\ UNCHANGED <<urls, dbUp, req>>
    /\ UNCHANGED <<redirVars, notifyVars, metaVars, fnVars>>

\* The first existence check: a failing query ends the request with 500.
CreateCheck(p) ==
    /\ cpc[p] = "check"
    /\ IF dbUp
       THEN /\ exists' = [exists EXCEPT ![p] = CountCode(urls, shortCode[p])]
            /\ cpc' = [cpc EXCEPT ![p] = "loop"]
            /\ UNCHANGED <<cresp, shortCode>>
       ELSE /\ cpc' = [cpc EXCEPT ![p] = "done"]
            /\ cresp' = [cresp EXCEPT ![p] =
                           [status |-> StatusInternalServerError,
                            error |-> "Database error"]]
            /\ shortCode' = [shortCode EXCEPT ![p] = NoCode]
            /\ UNCHANGED exists
    /\ UNCHANGED <<urls, dbUp, req>>
    /\ UNCHANGED <<redirVars, notifyVars, metaVars, fnVars>>

\* A retry loop with a failure exit: a recheck the store does not answer
\* ends the request with 500.
CreateRetryFailExit(p, b) ==
    /\ cpc[p] = "loop"
    /\ exists[p] > 0
    /\ IF dbUp
       THEN /\ shortCode' = [shortCode EXCEPT ![p] = GenerateShortCode(b)]
            /\ exists' = [exists EXCEPT ![p] =
                            CountCode(urls, GenerateShortCode(b))]
            /\ UNCHANGED <<cpc, cresp>>
       ELSE /\ shortCode' = [shortCode EXCEPT ![p] = NoCode]
            /\ cpc' = [cpc EXCEPT ![p] = "done"]
            /\ cresp' = [cresp EXCEPT ![p] =
                           [status |-> StatusInternalServerError,
                            error |-> "Database error"]]
            /\ UNCHANGED exists
    /\ UNCHANGED <<urls, dbUp, req>>
    /\ UNCHANGED <<redirVars, notifyVars, metaVars, fnVars>>

\* One iteration of `for exists > 0`: redraw (rand.Read leaving b) and
\* recheck. The recheck's error is not looked at: when the query fails, Scan
\* leaves exists as it was.
CreateRetry(p, b) ==
    /\ cpc[p] = "loop"
    /\ exists[p] > 0
    /\ shortCode' = [shortCode EXCEPT ![p] = GenerateShortCode(b)]
    /\ exists' = [exists EXCEPT ![p] =
                    IF dbUp THEN CountCode(urls, GenerateShortCode(b))
                    ELSE exists[p]]
    /\ UNCHANGED <<urls, dbUp, cpc, req, cresp>>
    /\ UNCHANGED <<redirVars, notifyVars, metaVars, fnVars>>

\* An insert that goes back to the retry loop when the code is taken.
CreateInsertRedraw(p) ==
    /\ cpc[p] = "loop"
    /\ exists[p] = 0
    /\ LET ins == UrlsInsert(urls, shortCode[p], req[p])
       IN  IF dbUp /\ ins.ok
           THEN /\ urls' = ins.tbl
                /\ cresp' = [cresp EXCEPT ![p] =
                               [status |-> StatusOK,
                                short_code |-> shortCode[p],
                                short_url |-> <<"http://localhost:8000/", shortCode[p]>>,
                                long_url |-> req[p]]]
                /\ cpc' = [cpc EXCEPT ![p] = "done"]
                /\ shortCode' = [shortCode EXCEPT ![p] = NoCode]
                /\ UNCHANGED exists
           ELSE IF dbUp
           THEN /\ exists' = [exists EXCEPT ![p] = 1]
                /\ UNCHANGED <<urls, cresp, cpc, shortCode>>
           ELSE /\ urls' = urls
                /\ cresp' = [cresp EXCEPT ![p] =
                               [status |-> StatusInternalServerError,
                                error |-> "Failed to create short URL"]]
                /\ cpc' = [cpc EXCEPT ![p] = "done"]
                /\ shortCode' = [shortCode EXCEPT ![p] = NoCode]
                /\ UNCHANGED exists
    /\ UNCHANGED <<dbUp, req>>
    /\ UNCHANGED <<redirVars, notifyVars, metaVars, fnVars>>

\* The insert and the response.
CreateInsert(p) ==
    /\ cpc[p] = "loop"
    /\ exists[p] = 0
    /\ LET ins == UrlsInsert(urls, shortCode[p], req[p])
       IN  IF dbUp /\ ins.ok
           THEN /\ urls' = ins.tbl
                /\ cresp' = [cresp EXCEPT ![p] =
                               [status |-> StatusOK,
                                short_code |-> shortCode[p],
                                short_url |-> <<"http://localhost:8000/", shortCode[p]>>,
                                long_url |-> req[p]]]
           ELSE /\ urls' = urls
                /\ cresp' = [cresp EXCEPT ![p] =
                               [status |-> StatusInternalServerError,
                                error |-> "Failed to create short URL"]]
    /\ cpc' = [cpc EXCEPT ![p] = "done"]
    /\ shortCode' = [shortCode EXCEPT ![p] = NoCode]
    /\ UNCHANGED <<dbUp, req, exists>>
    /\ UNCHANGED <<redirVars, notifyVars, metaVars, fnVars>>

(***************************************************************************)
(* GET /:code: redirect.                                                   *)
(***************************************************************************)
\* A lookup that answers 404 for every error of the query.
RedirectLookupAllNotFound(r, code) ==
    /\ rpc[r] = "idle"
    /\ cpc[r] = "idle"
    /\ rcode' = [rcode EXCEPT ![r] = code]
    /\ IF ~dbUp \/ CountCode(urls, code) = 0
       THEN /\ rresp' = [rresp EXCEPT ![r] =
                           [status |-> StatusNotFound,
                            error |-> "Short URL not found"]]
            /\ rpc' = [rpc EXCEPT ![r] = "done"]
            /\ UNCHANGED <<longURL, gpc>>
       ELSE /\ longURL' = [longURL EXCEPT ![r] = LookupURL(urls, code)]
            /\ gpc' = [gpc EXCEPT ![r] = "spawned"]
            /\ rpc' = [rpc EXCEPT ![r] = "found"]
            /\ UNCHANGED rresp
    /\ UNCHANGED <<attempts, glog, net, analyticsUp, click_events>>
    /\ UNCHANGED <<goVars, metaVars, fnVars>>

\* A lookup that starts the notification before it looks at the result.
RedirectLookupNotifyFirst(r, code) ==
    /\ rpc[r] = "idle"
    /\ cpc[r] = "idle"
    /\ rcode' = [rcode EXCEPT ![r] = code]
    /\ gpc' = [gpc EXCEPT ![r] = "spawned"]
    /\ IF ~dbUp
       THEN /\ rresp' = [rresp EXCEPT ![r] =
                           [status |-> StatusInternalServerError,
                            error |-> "Database error"]]
            /\ rpc' = [rpc EXCEPT ![r] = "done"]
            /\ UNCHANGED longURL
       ELSE IF CountCode(urls, code) = 0
       THEN /\ rresp' = [rresp EXCEPT ![r] =
                           [status |-> StatusNotFound,
                            error |-> "Short URL not found"]]
            /\ rpc' = [rpc EXCEPT ![r] = "done"]
            /\ UNCHANGED longURL
       ELSE /\ longURL' = [longURL EXCEPT ![r] = LookupURL(urls, code)]
            /\ rpc' = [rpc EXCEPT ![r] = "found"]
            /\ UNCHANGED rresp
    /\ UNCHANGED <<attempts, glog, net, analyticsUp, click_events>>
    /\ UNCHANGED <<goVars, metaVars, fnVars>>

\* The lookup, its two error responses, and `go sendClickEvent(shortCode)`.
RedirectLookup(r, code) ==
    /\ rpc[r] = "idle"
    /\ cpc[r] = "idle"
    /\ rcode' = [rcode EXCEPT ![r] = code]
    /\ IF ~dbUp
       THEN /\ rresp' = [rresp EXCEPT ![r] =
                           [status |-> StatusInternalServerError,
                            error |-> "Database error"]]
            /\ rpc' = [rpc EXCEPT ![r] = "done"]
            /\ UNCHANGED <<longURL, gpc>>
       ELSE IF CountCode(urls, code) = 0
       THEN /\ rresp' = [rresp EXCEPT ![r] =
                           [status |-> StatusNotFound,
                            error |-> "Short URL not found"]]
            /\ rpc' = [rpc EXCEPT ![r] = "done"]
            /\ UNCHANGED <<longURL, gpc>>
       ELSE /\ longURL' = [longURL EXCEPT ![r] = LookupURL(urls, code)]
            /\ gpc' = [gpc EXCEPT ![r] = "spawned"]
            /\ rpc' = [rpc EXCEPT ![r] = "found"]
            /\ UNCHANGED rresp
    /\ UNCHANGED <<attempts, glog, net, analyticsUp, click_events>>
    /\ UNCHANGED <<goVars, metaVars, fnVars>>

\* A handler that calls sendClickEvent in line: the response waits for it.
RedirectRespondSync(r) ==
    /\ rpc[r] = "found"
    /\ gpc[r] = "done"
    /\ rresp' = [rresp EXCEPT ![r] =
                   [status |-> StatusMovedPermanently, location |-> longURL[r]]]
    /\ rpc' = [rpc EXCEPT ![r] = "done"]
    /\ UNCHANGED <<rcode, longURL>>
    /\ UNCHANGED <<goVars, notifyVars, metaVars, fnVars>>

\* c.Redirect(http.StatusMovedPermanently, longURL)
RedirectRespond(r) ==
    /\ rpc[r] = "found"
    /\ rresp' = [rresp EXCEPT ![r] =
                   [status |-> StatusMovedPermanently, location |-> longURL[r]]]
    /\ rpc' = [rpc EXCEPT ![r] = "done"]
    /\ UNCHANGED <<rcode, longURL>>
    /\ UNCHANGED <<goVars, notifyVars, metaVars, fnVars>>

(***************************************************************************)
(* sendClickEvent: one POST to the Analytics Service, its outcome logged.  *)
(***************************************************************************)
\* client.Post(pythonServiceURL+"/api/events", ...) is issued.
SendClickEventPost(r) ==
    /\ gpc[r] = "spawned"
    /\ gpc' = [gpc EXCEPT ![r] = "posting"]
    /\ attempts' = [attempts EXCEPT ![r] = @ + 1]
    /\ net' = [net EXCEPT ![r] = "request"]
    /\ UNCHANGED <<glog, analyticsUp, click_events>>
    /\ UNCHANGED <<goVars, redirVars, metaVars, fnVars>>

\* The line sendClickEvent logs for what client.Post returned: err (timeout
\* or connection failure), a non-200 status, or 200.
LogLine(outcome) ==
    CASE outcome = "err"    -> "Error sending event to Python service"
      [] outcome = "non200" -> "Python service returned status"
      [] outcome = "ok"     -> "Click event sent for short code"

\* The outcomes client.Post can have, given what the exchange has reached:
\* no reply within the 2 s timeout (or no connection) is always possible.
PostOutcomes(r) ==
    {"err"} \cup (IF net[r] = "reply200" THEN {"ok"} ELSE {})
            \cup (IF net[r] = "replyErr" THEN {"non200"} ELSE {})

\* A sendClickEvent that goes back to post again when the attempt failed.
SendClickEventReturnRetry(r, outcome) ==
    /\ gpc[r] = "posting"
    /\ outcome \in PostOutcomes(r)
    /\ gpc' = [gpc EXCEPT ![r] = IF outcome = "ok" THEN "done" ELSE "spawned"]
    /\ glog' = [glog EXCEPT ![r] = LogLine(outcome)]
    /\ net' = [net EXCEPT ![r] = "idle"]
    /\ UNCHANGED <<attempts, analyticsUp, click_events>>
    /\ UNCHANGED <<goVars, redirVars, metaVars, fnVars>>

\* client.Post returns; the outcome is logged and the goroutine ends.
SendClickEventReturn(r, outcome) ==
    /\ gpc[r] = "posting"
    /\ outcome \in PostOutcomes(r)
    /\ gpc' = [gpc EXCEPT ![r] = "done"]
    /\ glog' = [glog EXCEPT ![r] = LogLine(outcome)]
    /\ net' = [net EXCEPT ![r] = "idle"]
    /\ UNCHANGED <<attempts, analyticsUp, click_events>>
    /\ UNCHANGED <<goVars, redirVars, metaVars, fnVars>>

(***************************************************************************)
(* The Analytics Service, as far as the notification reaches it.           *)
(***************************************************************************)
AnalyticsFail ==
    /\ analyticsUp
    /\ analyticsUp' = FALSE
    /\ UNCHANGED <<gpc, attempts, glog, net, click_events>>
    /\ UNCHANGED <<goVars, redirVars, metaVars, fnVars>>

AnalyticsRecover ==
    /\ ~analyticsUp
    /\ analyticsUp' = TRUE
    /\ UNCHANGED <<gpc, attempts, glog, net, click_events>>
    /\ UNCHANGED <<goVars, redirVars, metaVars, fnVars>>

\* POST /api/events: the event is appended to the click-event log. The field
\* origin is not a column: it tags the entry with the redirect it came from.
EventsReceive(r) ==
    /\ analyticsUp
    /\ net[r] = "request"
    /\ click_events' = Append(click_events,
                              [short_code |-> rcode[r], origin |-> r])
    /\ net' = [net EXCEPT ![r] = "reply200"]
    /\ UNCHANGED <<gpc, attempts, glog, analyticsUp>>
    /\ UNCHANGED <<goVars, redirVars, metaVars, fnVars>>

\* POST /api/events answered with a non-200 status: nothing is logged.
EventsReject(r) ==
    /\ analyticsUp
    /\ net[r] = "request"
    /\ net' = [net EXCEPT ![r] = "replyErr"]
    /\ UNCHANGED <<gpc, attempts, glog, analyticsUp, click_events>>
    /\ UNCHANGED <<goVars, redirVars, metaVars, fnVars>>

(***************************************************************************)
(* The Go service with its notification channel.                           *)
(***************************************************************************)
Next ==
    \/ DbFail
    \/ DbRecover
    \/ \E p \in Creators, url \in LongURLs \cup {NoURL}, b \in RandReads :
          CreateStart(p, url, b)
    \/ \E p \in Creators : CreateCheck(p)
    \/ \E p \in Creators, b \in RandReads : CreateRetry(p, b)
    \/ \E p \in Creators : CreateInsert(p)
    \/ \E r \in Redirects, code \in Codes : RedirectLookup(r, code)
    \/ \E r \in Redirects : RedirectRespond(r)
    \/ \E r \in Redirects : SendClickEventPost(r)
    \/ \E r \in Redirects, o \in {"err", "non200", "ok"} : SendClickEventReturn(r, o)
    \/ AnalyticsFail
    \/ AnalyticsRecover
    \/ \E r \in Redirects : EventsReceive(r)
    \/ \E r \in Redirects : EventsReject(r)

Spec == Init /\ [][Next]_vars

\* A redraw of the retry loop that hits a code the store does not hold, with
\* the store answering the recheck.
FreshDraw(p) ==
    \E b \in RandReads :
        /\ GenerateShortCode(b) \notin StoredCodes(urls)
        /\ dbUp
        /\ CreateRetry(p, b)

\* The creation requests alone (no redirects), taken concurrently.
CreateNext ==
    \/ DbFail
    \/ DbRecover
    \/ \E p \in Creators, url \in LongURLs \cup {NoURL}, b \in RandReads :
          CreateStart(p, url, b)
    \/ \E p \in Creators : CreateCheck(p)
    \/ \E p \in Creators, b \in RandReads : CreateRetry(p, b)
    \/ \E p \in Creators : CreateInsert(p)

\* An iteration of the retry loop.
Redraw(p) == \E b \in RandReads : CreateRetry(p, b)

\* Creation under fair draws: a request in the retry loop goes on iterating,
\* and the random source does not avoid the unused codes for ever. Nothing
\* is assumed of the store, which may stop answering and stay so.
FairSpec ==
    /\ Init /\ [][CreateNext]_vars
    /\ \A p \in Creators : WF_vars(Redraw(p))
    /\ \A p \in Creators : SF_vars(FreshDraw(p))

(***************************************************************************)
(* The metadata service: the metadata table (short_code TEXT UNIQUE) and   *)
(* its handlers. fetched_at is left out: no time is modelled.              *)
(***************************************************************************)
MetaRow(code, url, meta) ==
    [short_code |-> code, url |-> url, title |-> meta.title,
     description |-> meta.description, favicon_url |-> meta.favicon_url]

\* INSERT OR IGNORE: a row whose short_code is taken is dropped.
MetaInsertOrIgnore(tbl, row) ==
    IF \E i \in DOMAIN tbl : tbl[i].short_code = row.short_code
    THEN tbl
    ELSE Append(tbl, row)

\* INSERT INTO a table without the UNIQUE constraint: every write adds a row.
MetaInsertPlain(tbl, row) == Append(tbl, row)

\* INSERT OR REPLACE INTO metadata: the row that holds the short_code is
\* deleted and the new row gets the next rowid.
MetaInsertOrReplace(tbl, row) ==
    Append(SelectSeq(tbl, LAMBDA old : old.short_code # row.short_code), row)

\* SELECT * FROM metadata WHERE short_code = ?
MetaRowsOf(tbl, code) == SelectSeq(tbl, LAMBDA row : row.short_code = code)

MetaDbFail ==
    /\ metaDbUp
    /\ metaDbUp' = FALSE
    /\ UNCHANGED <<metadata, mpc, mbody, mmeta, mlog, mstmt, mresp>>
    /\ UNCHANGED <<goVars, redirVars, notifyVars, fnVars>>

MetaDbRecover ==
    /\ ~metaDbUp
    /\ metaDbUp' = TRUE
    /\ UNCHANGED <<metadata, mpc, mbody, mmeta, mlog, mstmt, mresp>>
    /\ UNCHANGED <<goVars, redirVars, notifyVars, fnVars>>

\* The requests are numbered in the order in which they arrive.
Arrives(m) ==
    /\ mpc[m] = "idle"
    /\ \A k \in MetaRequests : k < m => mpc[k] # "idle"

\* POST /api/metadata from its entry to `await axios.get` inside
\* fetchUrlMetadata, where the handler returns to the event loop.
MetaPost(m, code, url) ==
    /\ Arrives(m)
    /\ mbody' = [mbody EXCEPT ![m] = [short_code |-> code, long_url |-> url]]
    /\ IF code = "" \/ url = Empty
       THEN /\ mresp' = [mresp EXCEPT ![m] =
                           [status |-> StatusBadRequest,
                            error |-> "short_code and long_url are required"]]
            /\ mpc' = [mpc EXCEPT ![m] = "done"]
            /\ UNCHANGED mlog
       ELSE /\ mlog' = [mlog EXCEPT ![m] = Append(@, "Fetching metadata for")]
            /\ mpc' = [mpc EXCEPT ![m] = "fetching"]
            /\ UNCHANGED mresp
    /\ UNCHANGED <<metadata, metaDbUp, mmeta, mstmt>>
    /\ UNCHANGED <<goVars, redirVars, notifyVars, fnVars>>

\* The fetch settles and the rest of fetchUrlMetadata runs, to its return
\* or through its catch block: the promise the handler awaits is resolved
\* with the result.
MetaFetched(m, fetched) ==
    /\ mpc[m] = "fetching"
    /\ mmeta' = [mmeta EXCEPT ![m] = FetchUrlMetadata(mbody[m].long_url, fetched)]
    /\ mlog' = [mlog EXCEPT ![m] =
                  IF FetchThrows(mbody[m].long_url, fetched)
                  THEN Append(@, "Error fetching metadata")
                  ELSE @]
    /\ mpc' = [mpc EXCEPT ![m] = "fetched"]
    /\ UNCHANGED <<metadata, metaDbUp, mbody, mstmt, mresp>>
    /\ UNCHANGED <<goVars, redirVars, notifyVars, fnVars>>

\* The handler resumes after `await fetchUrlMetadata(long_url)` and submits
\* the INSERT OR REPLACE with db.run.
MetaResume(m) ==
    /\ mpc[m] = "fetched"
    /\ mpc' = [mpc EXCEPT ![m] = "submitted"]
    /\ UNCHANGED <<metadata, metaDbUp, mbody, mmeta, mlog, mstmt, mresp>>
    /\ UNCHANGED <<goVars, redirVars, notifyVars, fnVars>>

\* SQLite executes the request's INSERT OR REPLACE; the callback is due.
MetaStoreRun(m) ==
    /\ mpc[m] = "submitted"
    /\ IF metaDbUp
       THEN /\ metadata' = MetaInsertOrReplace(metadata,
                   MetaRow(mbody[m].short_code, mbody[m].long_url, mmeta[m]))
            /\ mstmt' = [mstmt EXCEPT ![m] = [state |-> "ok"]]
       ELSE /\ metadata' = metadata
            /\ mstmt' = [mstmt EXCEPT ![m] = [state |-> "err"]]
    /\ mpc' = [mpc EXCEPT ![m] = "executed"]
    /\ UNCHANGED <<metaDbUp, mbody, mmeta, mlog, mresp>>
    /\ UNCHANGED <<goVars, redirVars, notifyVars, fnVars>>

\* The callback of db.run, which writes the response.
MetaStore(m) ==
    /\ mpc[m] = "executed"
    /\ IF mstmt[m].state = "ok"
       THEN /\ mresp' = [mresp EXCEPT ![m] =
                           [status |-> StatusOK,
                            short_code |-> mbody[m].short_code,
                            url |-> mbody[m].long_url,
                            title |-> mmeta[m].title,
                            description |-> mmeta[m].description,
                            favicon_url |-> mmeta[m].favicon_url,
                            result |-> "success"]]
            /\ mlog' = [mlog EXCEPT ![m] = Append(@, "Metadata stored")]
       ELSE /\ mresp' = [mresp EXCEPT ![m] =
                           [status |-> StatusInternalServerError,
                            error |-> "Failed to store metadata"]]
            /\ mlog' = [mlog EXCEPT ![m] = Append(@, "Database error")]
    /\ mstmt' = [mstmt EXCEPT ![m] = NoStmt]
    /\ mpc' = [mpc EXCEPT ![m] = "done"]
    /\ UNCHANGED <<metadata, metaDbUp, mbody, mmeta>>
    /\ UNCHANGED <<goVars, redirVars, notifyVars, fnVars>>

\* GET /api/metadata/:short_code: the handler submits the SELECT with db.get.
MetaGet(m, code) ==
    /\ Arrives(m)
    /\ mbody' = [mbody EXCEPT ![m] = [short_code |-> code, long_url |-> Empty]]
    /\ mpc' = [mpc EXCEPT ![m] = "selecting"]
    /\ UNCHANGED <<metadata, metaDbUp, mmeta, mlog, mstmt, mresp>>
    /\ UNCHANGED <<goVars, redirVars, notifyVars, fnVars>>

\* SQLite executes the SELECT; the callback is due.
MetaGetRun(m) ==
    /\ mpc[m] = "selecting"
    /\ mstmt' = [mstmt EXCEPT ![m] =
                   IF metaDbUp
                   THEN [state |-> "ok",
                         rows |-> MetaRowsOf(metadata, mbody[m].short_code)]
                   ELSE [state |-> "err"]]
    /\ mpc' = [mpc EXCEPT ![m] = "selected"]
    /\ UNCHANGED <<metadata, metaDbUp, mbody, mmeta, mlog, mresp>>
    /\ UNCHANGED <<goVars, redirVars, notifyVars, fnVars>>

\* The callback of db.get, which writes the response.
MetaGetCallback(m) ==
    /\ mpc[m] = "selected"
    /\ IF mstmt[m].state = "err"
       THEN /\ mresp' = [mresp EXCEPT ![m] =
                           [status |-> StatusInternalServerError,
                            error |-> "Database error"]]
            /\ mlog' = [mlog EXCEPT ![m] = Append(@, "Database error")]
       ELSE IF mstmt[m].rows = <<>>
       THEN /\ mresp' = [mresp EXCEPT ![m] =
                           [status |-> StatusNotFound,
                            error |-> "Metadata not found"]]
            /\ UNCHANGED mlog
       ELSE /\ mresp' = [mresp EXCEPT ![m] =
                           [status |-> StatusOK, row |-> mstmt[m].rows[1]]]
            /\ UNCHANGED mlog
    /\ mstmt' = [mstmt EXCEPT ![m] = NoStmt]
    /\ mpc' = [mpc EXCEPT ![m] = "done"]
    /\ UNCHANGED <<metadata, metaDbUp, mbody, mmeta>>
    /\ UNCHANGED <<goVars, redirVars, notifyVars, fnVars>>

\* The metadata service at start; the Go service is left at rest.
MetaInit == ServicesInit /\ FnIdle /\ urls = <<>>

\* The POST /api/metadata requests, taken concurrently. The GET handler is
\* left to MetaAllSpec: it writes neither the table nor any state of a POST.
MetaNext ==
    \/ MetaDbFail
    \/ MetaDbRecover
    \/ \E m \in MetaRequests, body \in MetaBodies :
          MetaPost(m, body.short_code, body.long_url)
    \/ \E m \in MetaRequests, fetched \in Fetched : MetaFetched(m, fetched)
    \/ \E m \in MetaRequests : MetaResume(m)
    \/ \E m \in MetaRequests : MetaStoreRun(m)
    \/ \E m \in MetaRequests : MetaStore(m)

\* The whole metadata service.
MetaAllNext ==
    \/ MetaNext
    \/ \E m \in MetaRequests, code \in MetaCodes : MetaGet(m, code)
    \/ \E m \in MetaRequests : MetaGetRun(m)
    \/ \E m \in MetaRequests : MetaGetCallback(m)

MetaAllSpec == MetaInit /\ [][MetaAllNext]_vars

MetaSpec == MetaInit /\ [][MetaNext]_vars

(***************************************************************************)
(* Creation requests handled one at a time: a POST /api/shorten is taken   *)
(* up only when no other one is in progress.                               *)
(***************************************************************************)
NoCreateInProgress == \A q \in Creators : cpc[q] \in {"idle", "done"}

SeqNext ==
    \/ DbFail
    \/ DbRecover
    \/ \E p \in Creators, url \in LongURLs \cup {NoURL}, b \in RandReads :
          NoCreateInProgress /\ CreateStart(p, url, b)
    \/ \E p \in Creators : CreateCheck(p)
    \/ \E p \in Creators, b \in RandReads : CreateRetry(p, b)
    \/ \E p \in Creators : CreateInsert(p)

SeqSpec == Init /\ [][SeqNext]_vars

(***************************************************************************)
(* One POST /api/shorten whose draws range over the sampled buffers: the   *)
(* codes generateShortCode makes of them go through the handler into the   *)
(* urls table and the response.                                            *)
(***************************************************************************)
GenNext ==
    \/ \E url \in LongURLs \cup {NoURL}, b \in SampleReads :
          CreateStart(1, url, b)
    \/ CreateCheck(1)
    \/ \E b \in SampleReads : CreateRetry(1, b)
    \/ CreateInsert(1)

GenSpec == Init /\ [][GenNext]_vars

(***************************************************************************)
(* The favicon part of fetchUrlMetadata on its own: the selectors are run  *)
(* over the <link> elements of a fetched page and the href found is made   *)
(* into the favicon URL.                                                   *)
(***************************************************************************)
MaxLinks == 2

\* Targets: the stated example, one with a port, one with upper case,
\* userinfo and a port, and one whose host is an IPv4 address in short form.
FavTargets ==
    {<<"h", "t", "t", "p", "s", ":", "/", "/", "e", "x", "a", "m", "p", "l", "e", ".", "c", "o", "m", "/", "p", "a", "g", "e">>,
     <<"h", "t", "t", "p", ":", "/", "/", "l", "o", "c", "a", "l", "h", "o", "s", "t", ":", "3", "0", "0", "0", "/", "a", "/", "b">>,
     <<"H", "T", "T", "P", "S", ":", "/", "/", "U", "s", "e", "r", "@", "E", "x", "a", "m", "p", "l", "e", ".", "C", "O", "M", ":", "8", "4", "4", "3", "/", "x">>,
     <<"h", "t", "t", "p", ":", "/", "/", "0", "x", "7", "F", ".", "1", "/", "a">>}

FavHrefs ==
    {<<"/", "i", "c", "o", "n", ".", "p", "n", "g">>,
     <<"i", "c", "o", "n", ".", "p", "n", "g">>,
     <<"h", "t", "t", "p", "s", ":", "/", "/", "c", "d", "n", ".", "e", "x", "a", "m", "p", "l", "e", ".", "c", "o", "m", "/", "i", ".", "i", "c", "o">>,
     <<"/", "/", "c", "d", "n", ".", "e", "x", "a", "m", "p", "l", "e", ".", "c", "o", "m", "/", "i", ".", "i", "c", "o">>,
     <<"h", "t", "t", "p", "i", "c", "o", "n", ".", "p", "n", "g">>}

FavRels ==
    {"icon", "shortcut icon", "Shortcut Icon", "apple-touch-icon", "stylesheet"}

FavLinkSamples ==
    {Link(rel, "", href) : rel \in FavRels, href \in FavHrefs}
    \cup {Link("icon", "image/png", <<"i", "c", "o", "n", ".", "p", "n", "g">>),
          Link("icon", "image/x-icon", <<"/", "i", "c", "o", "n", ".", "p", "n", "g">>)}

FavPages ==
    UNION {[1..n -> FavLinkSamples] : n \in 0..MaxLinks}

FavInit ==
    /\ ServicesInit /\ urls = <<>> /\ metadata = <<>>
    /\ favTarget \in FavTargets
    /\ favLinks \in FavPages
    /\ faviconUrl = NotCalled

FaviconCall ==
    /\ faviconUrl = NotCalled
    /\ faviconUrl' = ResolveFavicon(favTarget, FirstFavicon(favLinks))
    /\ UNCHANGED <<favTarget, favLinks>>
    /\ UNCHANGED <<goVars, redirVars, notifyVars, metaVars>>

FavNext == FaviconCall

FavSpec == FavInit /\ [][FavNext]_vars

(***************************************************************************)
(* Properties of the Go service.                                           *)
(***************************************************************************)
\* Number of click-event log entries that came from redirect r.
Entries(r) ==
    Cardinality({i \in DOMAIN click_events : click_events[i].origin = r})

\* C1: in every reachable state, under any interleaving of concurrent
\* POST /api/shorten requests, no two rows of urls have the same short_code.
C1_UniqueShortCode ==
    \A i, j \in DOMAIN urls : urls[i].short_code = urls[j].short_code => i = j

\* Two requests checked the same code and both found it unused; one has
\* inserted it and the other is about to insert.
C1_Witness ==
    \E p, q \in Creators :
        /\ p # q
        /\ cresp[p].status = StatusOK
        /\ cpc[q] = "loop" /\ exists[q] = 0
        /\ shortCode[q] = cresp[p].short_code

\* C2: the existence check and the insert of a request are atomic with
\* respect to other requests: a request whose check found its code unused
\* still finds it unused when it inserts (and so persists its mapping).
C2_CheckInsertAtomic ==
    \A p \in Creators :
        (cpc[p] = "loop" /\ exists[p] = 0) => shortCode[p] \notin StoredCodes(urls)

\* C3: a row stored by POST /api/shorten is never changed or removed by later
\* create or redirect requests, and every GET /:code that reaches the store
\* afterwards redirects to the row's target.
C3_Step ==
    /\ \A i \in DOMAIN urls : i \in DOMAIN urls' /\ urls'[i] = urls[i]
    /\ \A r \in Redirects :
          (rpc[r] = "idle" /\ rpc'[r] # "idle" /\ dbUp) =>
              \A i \in DOMAIN urls :
                  urls[i].short_code = rcode'[r] =>
                      rpc'[r] = "found" /\ longURL'[r] = urls[i].long_url
    /\ \A r \in Redirects :
          (rpc[r] = "found" /\ rpc'[r] # "found") =>
              rresp'[r] = [status |-> StatusMovedPermanently,
                           location |-> longURL[r]]

C3_Created ==
    \A p \in Creators :
        cresp[p].status = StatusOK =>
            /\ \E i \in DOMAIN urls :
                  urls[i] = Row(cresp[p].short_code, cresp[p].long_url)
            /\ \A r \in Redirects :
                  (rcode[r] = cresp[p].short_code
                      /\ rresp[r].status = StatusMovedPermanently) =>
                  rresp[r].location = cresp[p].long_url

C3_StoredRowImmutable == [](C3_Created) /\ [][C3_Step]_vars

\* A POST stored a row and a GET for its code was redirected to its target.
C3_Witness ==
    \E p \in Creators, r \in Redirects :
        /\ cresp[p].status = StatusOK
        /\ rcode[r] = cresp[p].short_code
        /\ rresp[r].status = StatusMovedPermanently
        /\ rresp[r].location = cresp[p].long_url

\* C4: GET /:code answers 301 to the stored target exactly when the store
\* answers and holds the code, 404 exactly when the store answers and does
\* not hold it, and 500 when the query fails otherwise.
C4_Step ==
    \A r \in Redirects :
        /\ (rpc[r] = "idle" /\ rpc'[r] # "idle") =>
              IF ~dbUp
              THEN /\ rpc'[r] = "done"
                   /\ rresp'[r].status = StatusInternalServerError
              ELSE IF rcode'[r] \notin StoredCodes(urls)
              THEN /\ rpc'[r] = "done"
                   /\ rresp'[r].status = StatusNotFound
              ELSE /\ rpc'[r] = "found"
                   /\ rresp'[r] = NoResp
                   /\ longURL'[r] = LookupURL(urls, rcode'[r])
        /\ (rpc[r] = "found" /\ rpc'[r] # "found") =>
              /\ rpc'[r] = "done"
              /\ rresp'[r] = [status |-> StatusMovedPermanently,
                              location |-> longURL[r]]
        /\ rresp'[r] # rresp[r] => rpc[r] # "done"

C4_RedirectStatus == [][C4_Step]_vars

\* Two GETs for the same stored code: one redirected, one met a failing store.
C4_Witness ==
    \E r, q \in Redirects :
        /\ rcode[r] = rcode[q]
        /\ rresp[r].status = StatusMovedPermanently
        /\ rresp[q].status = StatusInternalServerError

\* C5: a successful GET /:code causes at most one notification POST; a failed
\* attempt is only logged, never retried or queued, so a click that was not
\* delivered by its attempt is never delivered later.
C5_Step ==
    \A r \in Redirects :
        gpc[r] = "done" =>
            /\ gpc'[r] = "done"
            /\ attempts'[r] = attempts[r]
            /\ Entries(r)' = Entries(r)

C5_AtMostOnce ==
    /\ [](\A r \in Redirects : attempts[r] <= 1 /\ Entries(r) <= attempts[r])
    /\ [][C5_Step]_vars

\* The attempt failed while the Analytics Service was away; the service is
\* back and the click is not in its log.
C5_Witness ==
    \E r \in Redirects :
        /\ rresp[r].status = StatusMovedPermanently
        /\ gpc[r] = "done"
        /\ glog[r] = "Error sending event to Python service"
        /\ Entries(r) = 0
        /\ analyticsUp

\* C6: the response to a successful GET /:code does not wait for the click
\* notification and is the same 301 to the stored target whatever the
\* notification's outcome.
C6_ResponseIndependent ==
    \A r \in Redirects :
        /\ rpc[r] = "found" => ENABLED RedirectRespond(r)
        /\ (rpc[r] = "done" /\ gpc[r] # "none") =>
              rresp[r] = [status |-> StatusMovedPermanently,
                          location |-> LookupURL(urls, rcode[r])]

\* The 301 was issued while the notification is still waiting for an
\* Analytics Service that does not answer.
C6_Witness ==
    \E r \in Redirects :
        /\ rresp[r].status = StatusMovedPermanently
        /\ gpc[r] = "posting"
        /\ net[r] = "request"
        /\ ~analyticsUp

\* C7 as stated: once the notification of a redirect has finished, the log
\* holds exactly one entry for it.
C7_ExactlyOneEntry ==
    \A r \in Redirects :
        (rresp[r].status = StatusMovedPermanently /\ gpc[r] = "done") =>
            Entries(r) = 1

\* C7 as amended: after a successful POST for a URL, a GET for its code
\* redirects to that URL and yields at most one log entry for that code,
\* exactly one when the notification's POST was answered 200.
C7_AtMostOneEntry ==
    \A p \in Creators, r \in Redirects :
        (cresp[p].status = StatusOK
            /\ rcode[r] = cresp[p].short_code
            /\ rresp[r].status = StatusMovedPermanently) =>
        /\ rresp[r].location = cresp[p].long_url
        /\ Entries(r) <= 1
        /\ glog[r] = "Click event sent for short code" => Entries(r) = 1
        /\ \A i \in DOMAIN click_events :
              click_events[i].origin = r =>
                  click_events[i].short_code = cresp[p].short_code

\* Created, redirected, notified: one entry.
C7_Witness ==
    \E p \in Creators, r \in Redirects :
        /\ cresp[p].status = StatusOK
        /\ rcode[r] = cresp[p].short_code
        /\ rresp[r].status = StatusMovedPermanently
        /\ glog[r] = "Click event sent for short code"
        /\ Entries(r) = 1

\* C8: when the store fails at a step of the allocation (the first check, a
\* recheck in the retry loop, the insert), the request ends with 500 and no
\* row is inserted.
CreateStep(p) ==
    \/ cpc'[p] # cpc[p]
    \/ shortCode'[p] # shortCode[p]
    \/ exists'[p] # exists[p]

C8_Step ==
    \A p \in Creators :
        (~dbUp /\ cpc[p] \in {"check", "loop"} /\ CreateStep(p)) =>
            /\ cpc'[p] = "done"
            /\ cresp'[p].status = StatusInternalServerError
            /\ urls' = urls

C8_StoreFailureEnds500 == [][C8_Step]_vars

\* C9: in a sequential run of creation calls, a call never returns a code the
\* store held when the call began: a drawn code that is present is redrawn
\* until an absent one is found, and with that one the call succeeds (the
\* store answering).
C9_Step ==
    \A p \in Creators :
        /\ (cpc[p] \in {"check", "loop"} /\ cpc'[p] \in {"check", "loop"}) =>
              urls' = urls
        /\ (cpc[p] = "loop" /\ shortCode[p] \in StoredCodes(urls)) =>
              /\ exists[p] > 0
              /\ cpc'[p] = "loop"
        /\ (cpc[p] = "loop" /\ cpc'[p] = "done") =>
              /\ shortCode[p] \notin StoredCodes(urls)
              /\ IF dbUp
                 THEN /\ cresp'[p].status = StatusOK
                      /\ cresp'[p].short_code = shortCode[p]
                      /\ urls' = Append(urls, Row(shortCode[p], req[p]))
                 ELSE /\ cresp'[p].status = StatusInternalServerError
                      /\ urls' = urls

C9_SequentialFreshCode == [][C9_Step]_vars

\* A first call stored a code; the next call drew the same code, found it
\* present and is about to redraw.
C9_Witness ==
    \E p, q \in Creators :
        /\ cresp[p].status = StatusOK
        /\ cpc[q] = "loop" /\ exists[q] > 0
        /\ shortCode[q] = cresp[p].short_code

(***************************************************************************)
(* Properties of the metadata service.                                     *)
(***************************************************************************)
\* The fetch of request m went through the catch block of fetchUrlMetadata.
FetchFailed(m) ==
    \E i \in DOMAIN mlog[m] : mlog[m][i] = "Error fetching metadata"

PlaceholderResponse(m) ==
    [status |-> StatusOK,
     short_code |-> mbody[m].short_code,
     url |-> mbody[m].long_url,
     title |-> UnableToFetchTitle,
     description |-> CouldNotRetrieve,
     favicon_url |-> Null,
     result |-> "success"]

\* C10 as stated: a POST /api/metadata with both fields whose fetch or parse
\* failed is always answered 200 with the placeholder title and description.
C10_FailureAlways200 ==
    \A m \in MetaRequests :
        (mpc[m] = "done" /\ FetchFailed(m)) => mresp[m] = PlaceholderResponse(m)

\* The request's INSERT OR REPLACE is executed in this step.
MetaRunStep(m) == mpc[m] = "submitted" /\ mpc'[m] = "executed"

\* The request is answered in this step (the db.run callback runs).
MetaStoreStep(m) == mpc[m] = "executed" /\ mpc'[m] = "done"

StoreFailed == [status |-> StatusInternalServerError,
                error |-> "Failed to store metadata"]

\* C10 as amended: the failed fetch yields the placeholder; when the store
\* executes the write, the placeholder becomes the only row of the code (a
\* previous row is replaced, other codes' rows are kept) and the answer is
\* 200 with the placeholder; when the write fails the table is unchanged
\* and the answer is 500.
C10_Result ==
    \A m \in MetaRequests :
        FetchFailed(m) =>
            /\ mmeta[m] = Placeholder
            /\ mpc[m] = "done" =>
                  mresp[m] = PlaceholderResponse(m) \/ mresp[m] = StoreFailed

C10_Step ==
    \A m \in MetaRequests :
        FetchFailed(m) =>
            /\ MetaRunStep(m) =>
                  IF metaDbUp
                  THEN /\ mstmt'[m].state = "ok"
                       /\ MetaRowsOf(metadata', mbody[m].short_code) =
                             <<MetaRow(mbody[m].short_code, mbody[m].long_url,
                                       Placeholder)>>
                       /\ \A code \in MetaCodes \ {mbody[m].short_code} :
                             MetaRowsOf(metadata', code) =
                                MetaRowsOf(metadata, code)
                  ELSE /\ mstmt'[m].state = "err"
                       /\ metadata' = metadata
            /\ MetaStoreStep(m) =>
                  /\ mresp'[m] = IF mstmt[m].state = "ok"
                                 THEN PlaceholderResponse(m) ELSE StoreFailed
                  /\ metadata' = metadata

C10_PlaceholderStored == [](C10_Result) /\ [][C10_Step]_vars

\* A code had a fetched record; a later request for it failed to fetch and
\* the placeholder has replaced the record.
C10_Witness ==
    \E m, n \in MetaRequests :
        /\ mresp[m].status = StatusOK /\ "title" \in DOMAIN mresp[m]
        /\ mresp[m].title # UnableToFetchTitle
        /\ FetchFailed(n) /\ mresp[n] = PlaceholderResponse(n)
        /\ mbody[n].short_code = mbody[m].short_code
        /\ MetaRowsOf(metadata, mbody[n].short_code) =
              <<MetaRow(mbody[n].short_code, mbody[n].long_url, Placeholder)>>

\* The row a POST /api/metadata request m writes.
RowOfRequest(m) == MetaRow(mbody[m].short_code, mbody[m].long_url, mmeta[m])

\* The POST /api/metadata requests made for a code with both fields.
RequestsFor(code) ==
    {m \in MetaRequests :
        /\ mpc[m] # "idle"
        /\ mbody[m].short_code = code
        /\ mbody[m].long_url # Empty}

\* No request is in progress.
MetaQuiet == \A m \in MetaRequests : mpc[m] \in {"idle", "done"}

\* C11 as stated: after any sequence of POST /api/metadata requests (all of
\* them answered), the table holds at most one row per short_code, and the
\* row of a code for which a request was made holds the values of the most
\* recent request for that code.
C11_LatestRequestStored ==
    MetaQuiet =>
        \A code \in MetaCodes :
            /\ Len(MetaRowsOf(metadata, code)) <= 1
            /\ (RequestsFor(code) # {} /\ MetaRowsOf(metadata, code) # <<>>) =>
                  MetaRowsOf(metadata, code) =
                     <<RowOfRequest(Last(RequestsFor(code)))>>

\* C11 as amended: the table never holds two rows of one short_code; a
\* write the store executes leaves exactly the request's own row for its
\* code, replacing an earlier one and keeping the rows of other codes, and
\* the request is then answered 200; a write that fails leaves the table as
\* it was and the request is answered 500; nothing else changes the table.
C11_OneRowPerCode ==
    /\ \A i \in DOMAIN metadata : metadata[i].short_code \in MetaCodes
    /\ \A code \in MetaCodes : Len(MetaRowsOf(metadata, code)) <= 1

C11_Step ==
    /\ \A m \in MetaRequests :
          /\ MetaRunStep(m) =>
                IF metaDbUp
                THEN /\ mstmt'[m].state = "ok"
                     /\ MetaRowsOf(metadata', mbody[m].short_code) =
                           <<RowOfRequest(m)>>
                     /\ \A code \in MetaCodes \ {mbody[m].short_code} :
                           MetaRowsOf(metadata', code) =
                              MetaRowsOf(metadata, code)
                ELSE /\ mstmt'[m].state = "err"
                     /\ metadata' = metadata
          /\ MetaStoreStep(m) =>
                IF mstmt[m].state = "ok"
                THEN mresp'[m].status = StatusOK
                ELSE mresp'[m] = StoreFailed
    /\ metadata' # metadata =>
          \E m \in MetaRequests : MetaRunStep(m) /\ metaDbUp

C11_LastStoredWins == [](C11_OneRowPerCode) /\ [][C11_Step]_vars

\* Two requests for one code were answered 200 with different titles and
\* the table holds one row for the code, with the values of one of them.
C11_Witness ==
    \E m, n \in MetaRequests :
        /\ m # n
        /\ mresp[m].status = StatusOK /\ "title" \in DOMAIN mresp[m]
        /\ mresp[n].status = StatusOK /\ "title" \in DOMAIN mresp[n]
        /\ mbody[m].short_code = mbody[n].short_code
        /\ mresp[m].title # mresp[n].title
        /\ MetaRowsOf(metadata, mbody[n].short_code) =
              <<[short_code |-> mresp[n].short_code, url |-> mresp[n].url,
                 title |-> mresp[n].title,
                 description |-> mresp[n].description,
                 favicon_url |-> mresp[n].favicon_url]>>

(***************************************************************************)
(* Properties of generateShortCode.                                        *)
(***************************************************************************)
Upper == {"A", "B", "C", "D", "E", "F", "G", "H", "I", "J", "K", "L", "M", "N", "O", "P",
          "Q", "R", "S", "T", "U", "V", "W", "X", "Y", "Z"}
Lower == {"a", "b", "c", "d", "e", "f", "g", "h", "i", "j", "k", "l", "m", "n", "o", "p",
          "q", "r", "s", "t", "u", "v", "w", "x", "y", "z"}
Digit == {"0", "1", "2", "3", "4", "5", "6", "7", "8", "9"}
UrlSafeChars == Upper \cup Lower \cup Digit \cup {"-", "_"}

\* Exactly 6 characters, each of A-Z, a-z, 0-9, '-' or '_', and none of
\* them the padding character '='.
IsShortCode(s) ==
    /\ Len(s) = 6
    /\ \A i \in DOMAIN s : s[i] \in UrlSafeChars /\ s[i] # "="

\* C12: for every buffer rand.Read can leave, the string generateShortCode
\* returns to createShortURL has exactly 6 characters, each of A-Z, a-z,
\* 0-9, '-' or '_', and none of them the padding character '='; the
\* short_code of every 200 response of POST /api/shorten, and of every row
\* the handler stores, has this form.
C12_ShortCodeForm ==
    /\ \A p \in Creators :
          /\ shortCode[p] # NoCode => IsShortCode(shortCode[p])
          /\ cresp[p].status = StatusOK => IsShortCode(cresp[p].short_code)
    /\ \A i \in DOMAIN urls : IsShortCode(urls[i].short_code)

\* A 200 response whose short_code uses the characters of the values 62 and
\* 63, its row stored next to the row of an earlier run.
C12_Witness ==
    \E p \in Creators :
        /\ cresp[p].status = StatusOK
        /\ \E i, j \in DOMAIN cresp[p].short_code :
              cresp[p].short_code[i] = "-" /\ cresp[p].short_code[j] = "_"
        /\ Len(urls) = 2

(***************************************************************************)
(* Properties of the favicon resolution.                                   *)
(***************************************************************************)
\* An absolute http(s) URL.
IsAbsoluteHttp(href) ==
    \/ StartsWith(href, <<"h", "t", "t", "p", ":", "/", "/">>)
    \/ StartsWith(href, <<"h", "t", "t", "p", "s", ":", "/", "/">>)

\* The href of the first of the selectors link[rel="icon"],
\* link[rel="shortcut icon"], link[rel="apple-touch-icon"] that gives one.
NamedSelectors == SubSeq(FaviconSelectors, 1, 3)

NamedHref(links) ==
    LET found == {k \in DOMAIN NamedSelectors :
                     SelectHref(links, NamedSelectors[k]) # Empty}
    IN  IF found = {} THEN Empty
        ELSE SelectHref(links, NamedSelectors[First(found)])

\* The favicon C13 describes, {scheme}://{host} being the protocol and the
\* hostname of the target as fetchUrlMetadata takes them from new URL(url).
StatedFavicon(url, links) ==
    Only({IF IsAbsoluteHttp(href) THEN href
          ELSE WithOrigin(url,
                 IF href = Empty
                 THEN <<"/", "f", "a", "v", "i", "c", "o", "n", ".", "i", "c", "o">>
                 ELSE IF StartsWith(href, <<"/">>) THEN href
                 ELSE <<"/">> \o href) :
            href \in {NamedHref(links)}})

\* C13 as stated: on a successful fetch the favicon is the href of the
\* first matching selector (icon, shortcut icon, apple-touch-icon),
\* unchanged when it is an absolute http(s) URL and resolved against the
\* target's scheme and host when it is relative, and
\* {scheme}://{host}/favicon.ico when no selector matches.
C13_FaviconResolved ==
    faviconUrl # NotCalled => faviconUrl = StatedFavicon(favTarget, favLinks)

\* The stated example: href="/icon.png" on https://example.com/page gives
\* https://example.com/icon.png.
C13_Example ==
    /\ favTarget = <<"h", "t", "t", "p", "s", ":", "/", "/", "e", "x", "a", "m", "p", "l", "e", ".", "c", "o", "m", "/", "p", "a", "g", "e">>
    /\ Len(favLinks) = 2
    /\ favLinks[1].rel = "stylesheet"
    /\ favLinks[2] = Link("icon", "", <<"/", "i", "c", "o", "n", ".", "p", "n", "g">>)
    /\ faviconUrl = <<"h", "t", "t", "p", "s", ":", "/", "/", "e", "x", "a", "m", "p", "l", "e", ".", "c", "o", "m", "/", "i", "c", "o", "n", ".", "p", "n", "g">>

(***************************************************************************)
(* Properties of the collision-retry loop.                                 *)
(***************************************************************************)
InRetryLoop(p) == cpc[p] = "loop" /\ exists[p] > 0

\* C14, the loop: a request in the retry loop writes no response and stays
\* in the handler whatever happens; it gets out of the loop only with a
\* redrawn code the store does not hold; with every code stored it stays in
\* the loop.
C14_Step ==
    \A p \in Creators :
        InRetryLoop(p) =>
            /\ cpc'[p] = "loop"
            /\ cresp'[p] = NoResp
            /\ exists'[p] = 0 =>
                  /\ shortCode'[p] \notin StoredCodes(urls)
                  /\ shortCode'[p] \notin StoredCodes(urls')
            /\ StoredCodes(urls) = Codes => InRetryLoop(p)'

\* Termination: under fair draws a request in the retry loop gets out of it
\* unless the store has come to hold every code.
C14_Terminates ==
    \A p \in Creators :
        InRetryLoop(p) ~> (~InRetryLoop(p) \/ StoredCodes(urls) = Codes)

C14_TerminatesIfStoreAnswers ==
    \A p \in Creators :
        (<>[]dbUp) =>
            (InRetryLoop(p) ~> (~InRetryLoop(p) \/ StoredCodes(urls) = Codes))

PassedCheck(p) == cpc[p] = "loop" /\ exists[p] = 0

\* Two requests passed the check with the same code, still unused.
Racing(p, q) ==
    /\ p # q
    /\ PassedCheck(p) /\ PassedCheck(q)
    /\ shortCode[p] = shortCode[q]
    /\ shortCode[p] \notin StoredCodes(urls)

\* The request passed the check and another one has stored its code since.
LostRace(q) == PassedCheck(q) /\ shortCode[q] \in StoredCodes(urls)

CreateFailed == [status |-> StatusInternalServerError,
                 error |-> "Failed to create short URL"]

\* C15: of two requests that passed the existence check with the same code,
\* the one whose insert the store executes first succeeds and leaves the
\* other with its code taken; the other's next step ends it with 500
\* 'Failed to create short URL', with no redraw; the winner's row is not
\* changed by the loser; no two 200 responses carry the same code.
C15_Step ==
    /\ \A p, q \in Creators :
          (Racing(p, q) /\ cpc'[p] = "done" /\ dbUp) =>
              /\ cresp'[p].status = StatusOK
              /\ urls' = Append(urls, Row(shortCode[p], req[p]))
              /\ LostRace(q)'
    /\ \A q \in Creators :
          LostRace(q) =>
              /\ LookupURL(urls', shortCode[q]) = LookupURL(urls, shortCode[q])
              /\ CountCode(urls', shortCode[q]) = 1
              /\ <<cpc[q], exists[q], shortCode[q], cresp[q]>>' #
                    <<cpc[q], exists[q], shortCode[q], cresp[q]>> =>
                    /\ cpc'[q] = "done"
                    /\ cresp'[q] = CreateFailed
                    /\ urls' = urls

C15_OneWinner ==
    \A p, q \in Creators :
        (cresp[p].status = StatusOK /\ cresp[q].status = StatusOK
         /\ cresp[p].short_code = cresp[q].short_code) => p = q

C15_RaceOutcome == [](C15_OneWinner) /\ [][C15_Step]_vars

\* One request was answered 200 and holds the row of its code; another one,
\* with a different URL, passed its check and was answered 500 'Failed to
\* create short URL'.
C15_Witness ==
    \E p, q \in Creators :
        /\ cresp[p].status = StatusOK
        /\ cresp[q] = CreateFailed
        /\ req[q] # req[p]
        /\ LookupURL(urls, cresp[p].short_code) = req[p]
        /\ CountCode(urls, cresp[p].short_code) = 1
        /\ dbUp

(***************************************************************************)
(* Properties of the dispatch of the click notification.                   *)
(***************************************************************************)
\* The GET requests whose lookup found a stored target.
Resolved ==
    {r \in Redirects :
        rpc[r] = "found" \/ rresp[r].status = StatusMovedPermanently}

RECURSIVE SumAttempts(_)
SumAttempts(rs) ==
    IF rs = {} THEN 0
    ELSE LET r == CHOOSE r \in rs : TRUE
         IN  attempts[r] + SumAttempts(rs \ {r})

\* C16: a GET /:code answered 404 or 500 has started no notification and
\* sent nothing to the Analytics Service; a notification exists only for a
\* lookup that found a stored target; the number of notification attempts
\* is at most the number of such lookups.
C16_NotifyOnlyResolved ==
    /\ \A r \in Redirects :
          rresp[r].status \in {StatusNotFound, StatusInternalServerError} =>
              /\ gpc[r] = "none"
              /\ attempts[r] = 0
              /\ net[r] = "idle"
              /\ Entries(r) = 0
    /\ \A r \in Redirects : gpc[r] # "none" => r \in Resolved
    /\ SumAttempts(Redirects) <= Cardinality(Resolved)

\* One GET was answered 404 and sent nothing; another one found its target
\* and made its notification attempt.
C16_Witness ==
    \E r, t \in Redirects :
        /\ rresp[r].status = StatusNotFound
        /\ gpc[r] = "none" /\ attempts[r] = 0
        /\ rresp[t].status = StatusMovedPermanently
        /\ attempts[t] = 1

====
